---- MODULE Spec2Model ----
(***************************************************************************)
(* State-machine model of the trade copier's core (copier-desktop,        *)
(* src-tauri/src/copier): the persistent execution queue, the safety      *)
(* ledger, the reconciliation loop and the file-watch ingestor with its   *)
(* idempotency store.  Each component has its own specification over the  *)
(* shared state; amounts are whole account-currency units, times are unix *)
(* seconds (queue) and hours since the epoch (ledger).                    *)
(***************************************************************************)
EXTENDS Integers, Sequences, FiniteSets, TLC

VARIABLES
    \* ---- execution queue (execution_queue.rs) ----
    now,            \* chrono::Utc::now().timestamp(), unix seconds
    pending,        \* ExecutionQueue.pending : VecDeque<QueuedExecution>
    in_progress,    \* ExecutionQueue.in_progress : HashMap<id, QueuedExecution>
    completed,      \* ExecutionQueue.completed : Vec<ExecutionResult>
    queue_file,     \* execution_queue.json
    history_file,   \* execution_history.json
    next_id,        \* next fresh Uuid
    q_crashes,      \* number of crashes so far (bounded)
    q_fails,        \* history: number of fail() calls per execution id
    q_persisted,    \* history: ids in the last completely written queue file
    q_last,         \* history: the last queue operation and what it saw
    \* ---- safety ledger (safety.rs) ----
    clock,            \* Utc::now(), in hours since the epoch
    daily_reset_hour, \* DAILY_RESET_HOUR
    ledger,           \* SAFETY_STATE : HashMap<receiver_id, ReceiverSafetyState>
    safety_file,      \* safety_state.json
    s_restarts,       \* number of restarts so far (bounded)
    pause_day,        \* history: trading day of each receiver's last pause_receiver
    s_last,           \* history: the last ledger operation and its verdict
    \* ---- reconciliation (reconciliation.rs, position_sync.rs) ----
    recon_ms,         \* Utc::now().timestamp_millis()
    recon_state,      \* RECONCILIATION_STATE
    recon_shutdown,   \* reconciliation::SHUTDOWN_FLAG
    loops,            \* the threads spawned by start_reconciliation_loop
    command_files,    \* each receiver's CopierCommands/sync_<ms>.json files
    recon_last,       \* history: the last discrepancy handled
    \* ---- file-watch ingestor (file_watcher.rs, idempotency.rs,
    \*      event_processor.rs) ----
    pending_dir,      \* the files of the master's CopierQueue/pending folder
    next_file,        \* number of files the master has written so far
    to_process,       \* the files the watch thread has yet to look at
    watcher,          \* the watch thread's place in process_event_file
    processed_keys,   \* PROCESSED_KEYS : IdempotencyCache
    processed_file,   \* processed_events.txt
    processed_tmp,    \* processed_events.tmp
    copier,           \* CopierState
    i_crashes,        \* number of crashes so far (bounded)
    fanned_out,       \* history: calls of process_event per idempotency key
    executed,         \* history: executions recorded per key and receiver
    evicted,          \* history: keys the store has dropped for capacity
    deleted_after_fanout, \* history: keys of fanned-out events whose file
                          \* the ingestor has deleted
    i_last,           \* history: the last step of the watch thread
    \* ---- the idempotency store on its own (idempotency.rs) ----
    store,            \* PROCESSED_KEYS : IdempotencyCache
    store_file,       \* processed_events.txt
    store_log,        \* history: keys inserted, their order, the last call
    \* ---- process_event and execute_trade, step by step ----
    fan,              \* where the thread in process_event is
    cmd_folder,       \* receiver -> cmd_<timestamp>.json files in CopierCommands
    fan_log,          \* history: commands written, verdicts, waits
    \* ---- the file-watch thread and its shutdown flag (file_watcher.rs) ----
    watch_shutdown,   \* file_watcher::SHUTDOWN_FLAG
    watch_loop,       \* where the thread in start_watching is
    \* ---- results of the calculations that are called on their own ----
    sync_status,      \* the PositionSyncStatus of the last generate_sync_report
    lot_call,         \* the last call of calculate_lots and what it returned
    key_call,         \* the last two events process_event_file has computed
                      \* an idempotency key for, and the keys
    \* ---- parts of the agent followed step by step ----
    intake,           \* watch_folder taking in files that the master writes
                      \* piece by piece
    rpc,              \* one call of execute_trade_async, its command and
                      \* response file, and the receiver's EA
    mutex_owner,      \* the thread that holds each parking_lot::Mutex
    thread            \* what each thread is running and the steps it has left

queueVars == <<now, pending, in_progress, completed, queue_file, history_file,
               next_id, q_crashes, q_fails, q_persisted, q_last>>

safetyVars == <<clock, daily_reset_hour, ledger, safety_file, s_restarts,
                pause_day, s_last>>

reconVars == <<recon_ms, recon_state, recon_shutdown, loops, command_files,
               recon_last>>

ingestVars == <<pending_dir, next_file, to_process, watcher, processed_keys,
                processed_file, processed_tmp, copier, i_crashes, fanned_out,
                executed, evicted, deleted_after_fanout, i_last>>

storeVars == <<store, store_file, store_log>>

fanVars == <<fan, cmd_folder, fan_log>>
watchVars == <<watch_shutdown, watch_loop>>
calcVars == <<sync_status, lot_call, key_call>>
fineVars == <<intake, rpc, mutex_owner, thread>>

vars ==
    <<queueVars, safetyVars, reconVars, ingestVars,
      storeVars, watchVars, calcVars, fineVars,
      fanVars>>

notQueueVars == <<safetyVars, reconVars, ingestVars, storeVars,
                  watchVars, calcVars, fineVars, fanVars>>
notSafetyVars == <<queueVars, reconVars, ingestVars, storeVars,
                   watchVars, calcVars, fineVars, fanVars>>
notReconVars == <<queueVars, safetyVars, ingestVars, storeVars,
                  watchVars, calcVars, fineVars, fanVars>>
notIngestVars == <<queueVars, safetyVars, reconVars, storeVars,
                   watchVars, calcVars, fineVars, fanVars>>
notWatchVars ==
    <<queueVars, safetyVars, reconVars, ingestVars, storeVars, fanVars,
      calcVars, fineVars>>
notCalcVars ==
    <<queueVars, safetyVars, reconVars, ingestVars, storeVars, fanVars,
      watchVars, fineVars>>
notFineVars ==
    <<queueVars, safetyVars, reconVars, ingestVars, storeVars, fanVars,
      watchVars, calcVars>>
notIntakeVars == <<notFineVars, rpc, mutex_owner, thread>>
notRpcVars == <<notFineVars, intake, mutex_owner, thread>>
notLockVars == <<notFineVars, intake, rpc>>
notStoreVars == <<queueVars, safetyVars, reconVars, ingestVars,
                  fanVars, watchVars, calcVars, fineVars>>

(***************************************************************************)
(* Bounds of the model.                                                    *)
(***************************************************************************)
MaxExecs == 2
MaxNow == 6
MaxCrashes == 1
\* stands for MAX_COMPLETED_HISTORY (1000), scaled down
MaxCompletedHistory == 2
\* executions in the queue at a time while the history is filled
MaxInFlight == 1
\* executions given to the worker whose progress is followed
MaxWorked == 2
\* files the master writes piece by piece
MaxIntakeFiles == 2
\* the ledger's clock runs from 0 to MaxClock hours, ClockStep hours at a time
MaxClock == 36
ClockStep == 12
MaxRestarts == 1
\* results recorded per receiver and trading day
MaxTradesToday == 1
MaxRuleTrades == 3
\* the reconciliation clock runs from 0 to MaxReconMs milliseconds
MaxReconMs == 1
\* stands for the cap of 100 on ReconciliationState.actions_taken, scaled down
MaxActionsTaken == 1
\* files the master writes into the pending folder
MaxDrops == 2
\* stands for MAX_KEYS_IN_MEMORY (10_000), scaled down
MaxKeysInMemory == 1
\* crashes of the agent while it ingests
MaxIngestCrashes == 1
\* the idempotency store on its own: distinct keys offered to it, and its
\* capacity (MAX_KEYS_IN_MEMORY, scaled down)
MaxStoreKeys == 3
MaxStoreCap == 2
\* events handed to process_event
MaxFanOuts == 1

(***************************************************************************)
(* Program constants.                                                      *)
(***************************************************************************)
DEFAULT_MAX_ATTEMPTS == 3
\* the cap on CopierState.recent_executions
RecentExecutionsCap == 100

Receivers == {"recv_1", "recv_2"}

(***************************************************************************)
(* Helpers.                                                                *)
(***************************************************************************)
Range(s) == {s[i] : i \in 1..Len(s)}

RECURSIVE Pow2(_)
Pow2(n) == IF n <= 0 THEN 1 ELSE 2 * Pow2(n - 1)

RemoveAt(s, i) == SubSeq(s, 1, i - 1) \o SubSeq(s, i + 1, Len(s))

\* every order in which the entries of a HashMap can be iterated
RECURSIVE Orders(_)
Orders(S) ==
    IF S = {} THEN {<<>>}
    ELSE UNION {{<<x>> \o t : t \in Orders(S \ {x})} : x \in S}

Ids(S) == {e.id : e \in S}

(***************************************************************************)
(* Execution queue.                                                        *)
(***************************************************************************)
NoFile == [state |-> "missing", pending |-> <<>>, in_progress |-> {}, history |-> <<>>]
TornFile == [state |-> "torn", pending |-> <<>>, in_progress |-> {}, history |-> <<>>]
QueueSnapshot(p, ip) == [state |-> "ok", pending |-> p, in_progress |-> ip, history |-> <<>>]
HistorySnapshot(h) == [state |-> "ok", pending |-> <<>>, in_progress |-> {}, history |-> h]

NoOp == [op |-> "none", id |-> 0, status |-> "none"]

NewExecution(id, receiver_id, t) ==
    [id |-> id, receiver_id |-> receiver_id, attempts |-> 0,
     max_attempts |-> DEFAULT_MAX_ATTEMPTS, next_retry_at |-> t,
     status |-> "pending", last_error |-> "none"]

\* the variant that takes the last entry that is ready
LastReadyIdx(p, t) ==
    IF \E i \in 1..Len(p) : p[i].next_retry_at <= t
    THEN CHOOSE i \in 1..Len(p) :
            /\ p[i].next_retry_at <= t
            /\ \A j \in (i + 1)..Len(p) : p[j].next_retry_at > t
    ELSE 0
\* first index of pending whose next_retry_at <= t, 0 when there is none
ReadyIdx(p, t) ==
    IF \E i \in 1..Len(p) : p[i].next_retry_at <= t
    THEN CHOOSE i \in 1..Len(p) :
            /\ p[i].next_retry_at <= t
            /\ \A j \in 1..(i - 1) : p[j].next_retry_at > t
    ELSE 0

Started(e) == [e EXCEPT !.attempts = e.attempts + 1, !.status = "in_progress"]

BackoffSecsOneLess(attempts) == Pow2(attempts - 1)
BackoffSecs(attempts) == Pow2(attempts)

AddToHistoryUnbounded(h, result) == Append(h, result)
AddToHistory(h, result) ==
    LET h1 == Append(h, result)
    IN  IF Len(h1) > MaxCompletedHistory
        THEN SubSeq(h1, Len(h1) - MaxCompletedHistory + 1, Len(h1))
        ELSE h1

RecoverStaleResetAttempts(e, t) ==
    [e EXCEPT !.status = "pending", !.next_retry_at = t, !.attempts = 0]
RecoverStale(e, t) == [e EXCEPT !.status = "pending", !.next_retry_at = t]

\* the pending deque load_from_disk builds from a parsed queue file, for one
\* iteration order of the in_progress map
LoadedPending(file, order, t) ==
    file.pending \o [i \in 1..Len(order) |-> RecoverStale(order[i], t)]

\* the in-memory queue: what an operation computes before save_to_disk
Mem(p, ip, c) == [pending |-> p, in_progress |-> ip, completed |-> c]

EnqueueResult(receiver_id) ==
    Mem(Append(pending, NewExecution(next_id, receiver_id, now)), in_progress, completed)

DequeueResult ==
    LET idx == ReadyIdx(pending, now)
    IN  Mem(RemoveAt(pending, idx), in_progress \cup {Started(pending[idx])}, completed)

CompleteResult(exec) ==
    Mem(pending, in_progress \ {exec},
        AddToHistory(completed,
            [id |-> exec.id, success |-> TRUE, attempts |-> exec.attempts]))

\* the variant that never gives up
RetryAlways(exec) == exec.attempts <= exec.max_attempts
WillRetry(exec) == exec.attempts < exec.max_attempts

\* the variant that pushes the retry to pending without taking the execution
\* out of in_progress
FailResultKeepsInProgress(e) ==
    LET exec == [e EXCEPT !.last_error = "error"]
    IN  IF WillRetry(exec)
        THEN Mem(Append(pending,
                    [exec EXCEPT !.next_retry_at = now + BackoffSecs(exec.attempts),
                                 !.status = "pending"]),
                 in_progress, completed)
        ELSE Mem(pending, in_progress \ {e},
                 AddToHistory(completed,
                    [id |-> exec.id, success |-> FALSE, attempts |-> exec.attempts]))
FailResult(e) ==
    LET exec == [e EXCEPT !.last_error = "error"]
    IN  IF WillRetry(exec)
        THEN Mem(Append(pending,
                    [exec EXCEPT !.next_retry_at = now + BackoffSecs(exec.attempts),
                                 !.status = "pending"]),
                 in_progress \ {e}, completed)
        ELSE Mem(pending, in_progress \ {e},
                 AddToHistory(completed,
                    [id |-> exec.id, success |-> FALSE, attempts |-> exec.attempts]))

\* save_to_disk: both files written from the in-memory queue
Saved(m) ==
    /\ pending' = m.pending
    /\ in_progress' = m.in_progress
    /\ completed' = m.completed
    /\ queue_file' = QueueSnapshot(m.pending, m.in_progress)
    /\ history_file' = HistorySnapshot(m.completed)
    /\ q_persisted' = Ids(Range(m.pending)) \cup Ids(m.in_progress)

\* ExecutionQueue::new on a restart: load_from_disk into an empty queue
Loaded(qf, hf) ==
    /\ queue_file' = qf
    /\ history_file' = hf
    /\ \E order \in Orders(qf.in_progress) :
         pending' = IF qf.state = "ok" THEN LoadedPending(qf, order, now) ELSE <<>>
    /\ in_progress' = {}
    /\ completed' = IF hf.state = "ok" THEN hf.history ELSE <<>>

InitQueue ==
    /\ now = 0
    /\ pending = <<>>
    /\ in_progress = {}
    /\ completed = <<>>
    /\ queue_file = NoFile
    /\ history_file = NoFile
    /\ next_id = 1
    /\ q_crashes = 0
    /\ q_fails = [i \in 1..(MaxExecs + 1) |-> 0]
    /\ q_persisted = {}
    /\ q_last = NoOp

\* The clock advances.  The queue reads the clock only to compare it with a
\* pending entry's next_retry_at, so time is let pass only while some pending
\* entry is still waiting for its retry time.
Tick ==
    /\ now < MaxNow
    /\ \E i \in 1..Len(pending) : pending[i].next_retry_at > now
    /\ now' = now + 1
    /\ q_last' = NoOp
    /\ UNCHANGED <<pending, in_progress, completed, queue_file, history_file,
                   next_id, q_crashes, q_fails, q_persisted>>
    /\ UNCHANGED notQueueVars

Enqueue(receiver_id) ==
    /\ next_id <= MaxExecs
    /\ Saved(EnqueueResult(receiver_id))
    /\ next_id' = next_id + 1
    /\ q_last' = [NoOp EXCEPT !.op = "enqueue", !.id = next_id]
    /\ UNCHANGED <<now, q_crashes, q_fails>>
    /\ UNCHANGED notQueueVars

Dequeue ==
    /\ ReadyIdx(pending, now) # 0
    /\ Saved(DequeueResult)
    /\ q_last' = [NoOp EXCEPT !.op = "dequeue", !.id = pending[ReadyIdx(pending, now)].id]
    /\ UNCHANGED <<now, next_id, q_crashes, q_fails>>
    /\ UNCHANGED notQueueVars

DequeueNone ==
    /\ ReadyIdx(pending, now) = 0
    /\ q_last' = [NoOp EXCEPT !.op = "dequeue_none"]
    /\ UNCHANGED <<now, pending, in_progress, completed, queue_file,
                   history_file, next_id, q_crashes, q_fails, q_persisted>>
    /\ UNCHANGED notQueueVars

Complete(id) ==
    /\ \E exec \in in_progress :
        /\ exec.id = id
        /\ Saved(CompleteResult(exec))
    /\ q_last' = [NoOp EXCEPT !.op = "complete", !.id = id]
    /\ UNCHANGED <<now, next_id, q_crashes, q_fails>>
    /\ UNCHANGED notQueueVars

Fail(id) ==
    /\ \E exec \in in_progress :
        /\ exec.id = id
        /\ Saved(FailResult(exec))
        /\ q_last' = [NoOp EXCEPT !.op = "fail", !.id = id,
                        !.status = IF WillRetry(exec) THEN "pending"
                                   ELSE "max_retries_exceeded"]
    /\ q_fails' = [q_fails EXCEPT ![id] = @ + 1]
    /\ UNCHANGED <<now, next_id, q_crashes>>
    /\ UNCHANGED notQueueVars

\* The process dies between two operations and is started again.
CrashReload ==
    /\ q_crashes < MaxCrashes
    /\ q_crashes' = q_crashes + 1
    /\ Loaded(queue_file, history_file)
    /\ q_last' = [NoOp EXCEPT !.op = "load"]
    /\ UNCHANGED <<now, next_id, q_fails, q_persisted>>
    /\ UNCHANGED notQueueVars

\* every operation that could run now, as the in-memory queue it computes
RunnableResults ==
    {EnqueueResult(r) : r \in {x \in Receivers : next_id <= MaxExecs}}
    \cup {DequeueResult : x \in {y \in {1} : ReadyIdx(pending, now) # 0}}
    \cup {CompleteResult(e) : e \in in_progress}
    \cup {FailResult(e) : e \in in_progress}

\* The process dies inside save_to_disk of an operation and is started again.
\* std::fs::write truncates and rewrites in place: a write cut short leaves a
\* file that does not parse.  point says where save_to_disk was cut:
\*   "queue_torn"    inside the write of execution_queue.json
\*   "between"       after that write, before execution_history.json
\*   "history_torn"  inside the write of execution_history.json
CrashInSave(point) ==
    /\ q_crashes < MaxCrashes
    /\ q_crashes' = q_crashes + 1
    /\ \E m \in RunnableResults :
        LET qf == IF point = "queue_torn" THEN TornFile
                  ELSE QueueSnapshot(m.pending, m.in_progress)
            hf == IF point = "history_torn" THEN TornFile ELSE history_file
        IN  /\ Loaded(qf, hf)
            /\ q_persisted' = IF point = "queue_torn" THEN q_persisted
                              ELSE Ids(Range(m.pending)) \cup Ids(m.in_progress)
    /\ q_last' = [NoOp EXCEPT !.op = "load"]
    /\ UNCHANGED <<now, next_id, q_fails>>
    /\ UNCHANGED notQueueVars

NextQueue ==
    \/ Tick
    \/ \E r \in Receivers : Enqueue(r)
    \/ Dequeue
    \/ DequeueNone
    \/ \E id \in 1..MaxExecs : Complete(id)
    \/ \E id \in 1..MaxExecs : Fail(id)
    \/ CrashReload
    \/ \E point \in {"queue_torn", "between", "history_torn"} : CrashInSave(point)

\* enqueue, for one execution more than the history has room for
EnqueueForHistory(receiver_id) ==
    /\ next_id <= MaxCompletedHistory + 1
    /\ Len(pending) + Cardinality(in_progress) < MaxInFlight
    /\ Saved(EnqueueResult(receiver_id))
    /\ next_id' = next_id + 1
    /\ q_last' = [NoOp EXCEPT !.op = "enqueue", !.id = next_id]
    /\ UNCHANGED <<now, q_crashes, q_fails>>
    /\ UNCHANGED notQueueVars

HistoryReceivers == {"recv_1"}

\* the operations that fill the history, and the reload
NextHistory ==
    \/ Tick
    \/ \E r \in HistoryReceivers : EnqueueForHistory(r)
    \/ Dequeue
    \/ \E id \in 1..(MaxCompletedHistory + 1) : Complete(id)
    \/ \E id \in 1..(MaxCompletedHistory + 1) : Fail(id)
    \/ CrashReload

\* the queue operations alone, in a run in which the process never dies
NextQueueCrashFree ==
    \/ Tick
    \/ \E r \in Receivers : Enqueue(r)
    \/ Dequeue
    \/ DequeueNone
    \/ \E id \in 1..MaxExecs : Complete(id)
    \/ \E id \in 1..MaxExecs : Fail(id)

\* the longest time the retries of the worked executions can take: the clock
\* of the model moves only while an execution waits for its retry time, and
\* each execution waits BackoffSecs(1), then BackoffSecs(2)
MaxWorkedNow == MaxWorked * (BackoffSecs(1) + BackoffSecs(2))

\* time advances while an execution waits for its retry time
WorkerTick ==
    /\ now < MaxWorkedNow
    /\ \E i \in 1..Len(pending) : pending[i].next_retry_at > now
    /\ now' = now + 1
    /\ q_last' = NoOp
    /\ UNCHANGED <<pending, in_progress, completed, queue_file, history_file,
                   next_id, q_crashes, q_fails, q_persisted>>
    /\ UNCHANGED notQueueVars

\* enqueue, for the executions given to the worker
EnqueueForWorker(receiver_id) ==
    /\ next_id <= MaxWorked
    /\ Saved(EnqueueResult(receiver_id))
    /\ next_id' = next_id + 1
    /\ q_last' = [NoOp EXCEPT !.op = "enqueue", !.id = next_id]
    /\ UNCHANGED <<now, q_crashes, q_fails>>
    /\ UNCHANGED notQueueVars

\* the worker answers the execution it holds with complete or with fail
WorkerAnswers ==
    \E id \in 1..MaxWorked : Complete(id) \/ Fail(id)

\* a producer that enqueues, and a worker that calls dequeue and answers
NextWorker ==
    \/ WorkerTick
    \/ \E r \in HistoryReceivers : EnqueueForWorker(r)
    \/ Dequeue
    \/ WorkerAnswers

\* the worker is scheduled again and again: a dequeue that can return an
\* execution is made, a dequeued execution is answered, and time passes
WorkerFairness ==
    /\ WF_vars(WorkerTick)
    /\ WF_vars(Dequeue)
    /\ WF_vars(WorkerAnswers)

\* complete with an id that in_progress does not hold: `in_progress.remove`
\* gives None, a warning is logged, nothing is saved
CompleteUnknown(id) ==
    /\ id \notin Ids(in_progress)
    /\ q_last' = [NoOp EXCEPT !.op = "complete_unknown", !.id = id]
    /\ UNCHANGED <<now, pending, in_progress, completed, queue_file,
                   history_file, next_id, q_crashes, q_fails, q_persisted>>
    /\ UNCHANGED notQueueVars

\* fail with an id that in_progress does not hold: nothing happens
FailUnknown(id) ==
    /\ id \notin Ids(in_progress)
    /\ q_last' = [NoOp EXCEPT !.op = "fail_unknown", !.id = id]
    /\ UNCHANGED <<now, pending, in_progress, completed, queue_file,
                   history_file, next_id, q_crashes, q_fails, q_persisted>>
    /\ UNCHANGED notQueueVars

\* the four operations with every id a caller can pass, in a run in which
\* the process never dies
NextQueueOps ==
    \/ Tick
    \/ \E r \in HistoryReceivers : Enqueue(r)
    \/ Dequeue
    \/ DequeueNone
    \/ \E id \in 1..MaxExecs : Complete(id)
    \/ \E id \in 1..MaxExecs : Fail(id)
    \/ \E id \in 1..(MaxExecs + 1) : CompleteUnknown(id)
    \/ \E id \in 1..(MaxExecs + 1) : FailUnknown(id)

(***************************************************************************)
(* Safety ledger.  Amounts are whole currency units and percentages whole  *)
(* numbers, so the comparisons of check_trade_safety are exact; the        *)
(* inputs are chosen away from the limits, where f64 rounding could decide.*)
(* Option<T> is a sequence: None is <<>>, Some(x) is <<x>>.                *)
(***************************************************************************)
None == <<>>
Some(x) == <<x>>

HoursPerDay == 24

\* ReceiverSafetyState::default(); last_updated, a timestamp nothing reads,
\* is left out
DefaultState ==
    [daily_pnl |-> 0, trades_today |-> 0, wins_today |-> 0, losses_today |-> 0,
     high_water_mark |-> 0, current_equity |-> 0, starting_balance |-> 0,
     last_reset_date |-> None, is_safety_paused |-> FALSE,
     pause_reason |-> None, consecutive_losses |-> 0]

\* SafetyConfig::default(), the fields check_trade_safety reads
DefaultSafetyConfig ==
    [max_daily_loss_amount |-> None, max_daily_loss_percent |-> Some(3),
     max_drawdown_percent |-> Some(10), min_equity |-> None,
     max_trades_per_day |-> None, prop_firm_safe_mode |-> FALSE,
     max_consecutive_losses |-> None]

EmptyLedger == [r \in {} |-> DefaultState]

\* HashMap::insert
Put(map, r, st) == [x \in DOMAIN map \cup {r} |-> IF x = r THEN st ELSE map[x]]

\* states.entry(receiver_id).or_default()
EntryOrDefault(map, r) == IF r \in DOMAIN map THEN map[r] ELSE DefaultState

GetTradingDay(t, reset_hour) ==
    LET current_hour == t % HoursPerDay
        today == t \div HoursPerDay
    IN  IF current_hour < reset_hour THEN today - 1 ELSE today

Today == GetTradingDay(clock, daily_reset_hour)

ClampHour(hour) == IF hour < 0 THEN 0 ELSE IF hour > 23 THEN 23 ELSE hour

ResetDaily(st, today) ==
    [st EXCEPT !.daily_pnl = 0, !.trades_today = 0, !.wins_today = 0,
               !.losses_today = 0, !.consecutive_losses = 0,
               !.is_safety_paused = FALSE, !.pause_reason = None,
               !.last_reset_date = Some(today)]

\* check_daily_reset: a state that has no last_reset_date needs a reset too
NeedsReset(st, today) ==
    IF st.last_reset_date # None THEN st.last_reset_date[1] # today ELSE TRUE

DailyResetDue(map, r, today) == r \in DOMAIN map /\ NeedsReset(map[r], today)

AfterDailyReset(map, r, today) ==
    IF DailyResetDue(map, r, today) THEN Put(map, r, ResetDaily(map[r], today))
    ELSE map

\* load_safety_state: only a state that has a last_reset_date is reset
LoadedState(st, today) ==
    IF st.last_reset_date # None /\ st.last_reset_date[1] # today
    THEN ResetDaily(st, today)
    ELSE st

SafetySnapshot(map, hour) == [exists |-> TRUE, receivers |-> map, daily_reset_hour_utc |-> hour]
NoSafetyFile == [exists |-> FALSE, receivers |-> EmptyLedger, daily_reset_hour_utc |-> 0]

EffectiveBalance(st, starting_balance) ==
    IF starting_balance > 0 THEN starting_balance
    ELSE IF st.starting_balance > 0 THEN st.starting_balance
    ELSE 10000

Verdict(v, reason, pause) == [verdict |-> v, reason |-> reason, pause |-> pause]

\* the rules of check_trade_safety, in the order of the code, on the state
\* read after check_daily_reset
SafetyRules(st, config, starting_balance) ==
    LET balance == EffectiveBalance(st, starting_balance)
        pct == config.max_daily_loss_percent
        amount == config.max_daily_loss_amount
        dd == config.max_drawdown_percent
        hwm == st.high_water_mark
        equity == st.current_equity
        max_consecutive == IF config.max_consecutive_losses # None
                           THEN config.max_consecutive_losses[1] ELSE 3
        \* daily_pnl <= -(balance * (pct / 100))
        PctBreached == pct # None /\ st.daily_pnl * 100 <= -(balance * pct[1])
        \* daily_pnl <= -(loss_limit * 0.8)
        PctNear == pct # None /\ st.daily_pnl * 1000 <= -(balance * pct[1] * 8)
        AmountBreached == amount # None /\ st.daily_pnl <= -(amount[1])
        DdChecked == dd # None /\ hwm > 0 /\ equity > 0
        \* ((hwm - equity) / hwm) * 100 >= max_dd_percent
        DdBreached == DdChecked /\ (hwm - equity) * 100 >= dd[1] * hwm
        DdNear == DdChecked /\ (hwm - equity) * 1000 >= dd[1] * 8 * hwm
        BelowMinEquity == /\ config.min_equity # None
                          /\ equity > 0
                          /\ equity < config.min_equity[1]
        TooManyTrades == /\ config.max_trades_per_day # None
                         /\ st.trades_today >= config.max_trades_per_day[1]
        LosingStreak == /\ config.prop_firm_safe_mode
                        /\ st.consecutive_losses >= max_consecutive
    IN  IF st.is_safety_paused THEN Verdict("blocked", "already_paused", FALSE)
        ELSE IF PctBreached THEN Verdict("blocked", "daily_loss_percent", TRUE)
        ELSE IF PctNear THEN Verdict("warning", "daily_loss_percent", FALSE)
        ELSE IF AmountBreached THEN Verdict("blocked", "daily_loss_amount", TRUE)
        ELSE IF DdBreached THEN Verdict("blocked", "drawdown", TRUE)
        ELSE IF DdNear THEN Verdict("warning", "drawdown", FALSE)
        ELSE IF BelowMinEquity THEN Verdict("blocked", "min_equity", TRUE)
        ELSE IF TooManyTrades THEN Verdict("blocked", "max_trades", FALSE)
        ELSE IF LosingStreak THEN Verdict("warning", "consecutive_losses", FALSE)
        ELSE Verdict("allowed", "none", FALSE)

\* pause_receiver
Paused(map, r, reason) ==
    Put(map, r, [EntryOrDefault(map, r) EXCEPT !.is_safety_paused = TRUE,
                                               !.pause_reason = Some(reason)])

\* check_trade_safety as a function of the ledger: the verdict and the ledger
\* it leaves
CheckOutcome(map, r, config, starting_balance, today) ==
    LET map1 == AfterDailyReset(map, r, today)
        v == SafetyRules(EntryOrDefault(map1, r), config, starting_balance)
    IN  [verdict |-> v.verdict,
         reason |-> v.reason,
         ledger |-> IF v.pause THEN Paused(map1, r, v.reason) ELSE map1,
         paused |-> v.pause,
         persisted |-> DailyResetDue(map, r, today) \/ v.pause]

\* update_equity
WithEquity(st, equity) ==
    [st EXCEPT !.current_equity = equity,
               !.high_water_mark = IF equity > st.high_water_mark THEN equity
                                   ELSE st.high_water_mark]

\* record_trade_result
WithTradeResult(st, pnl, is_winner) ==
    [st EXCEPT !.daily_pnl = st.daily_pnl + pnl,
               !.trades_today = st.trades_today + 1,
               !.wins_today = IF is_winner THEN st.wins_today + 1 ELSE st.wins_today,
               !.losses_today = IF is_winner THEN st.losses_today
                                ELSE st.losses_today + 1,
               !.consecutive_losses = IF is_winner THEN 0
                                      ELSE st.consecutive_losses + 1]

\* initialize_receiver
Initialized(st, starting_balance, current_equity, today) ==
    [WithEquity(st, current_equity) EXCEPT
        !.starting_balance = IF st.starting_balance = 0 THEN starting_balance
                             ELSE st.starting_balance,
        !.last_reset_date = IF st.last_reset_date = None THEN Some(today)
                            ELSE st.last_reset_date]

\* the safety configurations process_event builds for a receiver: the default
\* with the receiver's max_daily_loss_r as max_daily_loss_percent
SafetyConfigs ==
    {[DefaultSafetyConfig EXCEPT !.max_daily_loss_percent = p] :
        p \in {None, Some(0), Some(3)}}

\* the receiver the ledger's operations are called for
LedgerReceivers == {"recv_1"}

Balances == {0, 10000}
Equities == {8900, 10000}
TradeResults == {<<-350, FALSE>>, <<100, TRUE>>}
ResetHours == {0, 5}

NoCheck == [op |-> "none", receiver |-> "none", verdict |-> "none"]

\* persist_state: safety_state.json replaced by a temp file and a rename
Persisted(map) == safety_file' = SafetySnapshot(map, daily_reset_hour)

InitSafety ==
    /\ clock = 0
    /\ daily_reset_hour = 0
    /\ ledger = EmptyLedger
    /\ safety_file = NoSafetyFile
    /\ s_restarts = 0
    /\ pause_day = [r \in Receivers |-> None]
    /\ s_last = NoCheck

SafetyTick ==
    /\ clock + ClockStep <= MaxClock
    /\ clock' = clock + ClockStep
    /\ s_last' = IF GetTradingDay(clock', daily_reset_hour) = Today THEN s_last
                 ELSE NoCheck
    /\ UNCHANGED <<daily_reset_hour, ledger, safety_file, s_restarts, pause_day>>
    /\ UNCHANGED notSafetyVars

CheckTradeSafety(r, config, starting_balance) ==
    LET o == CheckOutcome(ledger, r, config, starting_balance, Today)
    IN  /\ ledger' = o.ledger
        /\ IF o.persisted THEN Persisted(o.ledger) ELSE UNCHANGED safety_file
        /\ pause_day' = IF o.paused THEN [pause_day EXCEPT ![r] = Some(Today)]
                        ELSE pause_day
        /\ s_last' = [op |-> "check", receiver |-> r, verdict |-> o.verdict]
        /\ UNCHANGED <<clock, daily_reset_hour, s_restarts>>
        /\ UNCHANGED notSafetyVars

CheckDailyReset(r) ==
    /\ DailyResetDue(ledger, r, Today)
    /\ ledger' = AfterDailyReset(ledger, r, Today)
    /\ Persisted(ledger')
    /\ s_last' = [NoCheck EXCEPT !.op = "reset", !.receiver = r]
    /\ UNCHANGED <<clock, daily_reset_hour, s_restarts, pause_day>>
    /\ UNCHANGED notSafetyVars

RecordTradeResult(r, pnl, is_winner) ==
    /\ EntryOrDefault(ledger, r).trades_today < MaxTradesToday
    /\ ledger' = Put(ledger, r, WithTradeResult(EntryOrDefault(ledger, r), pnl, is_winner))
    /\ Persisted(ledger')
    /\ s_last' = [NoCheck EXCEPT !.op = "record", !.receiver = r]
    /\ UNCHANGED <<clock, daily_reset_hour, s_restarts, pause_day>>
    /\ UNCHANGED notSafetyVars

UpdateEquity(r, equity) ==
    /\ ledger' = Put(ledger, r, WithEquity(EntryOrDefault(ledger, r), equity))
    /\ Persisted(ledger')
    /\ s_last' = [NoCheck EXCEPT !.op = "equity", !.receiver = r]
    /\ UNCHANGED <<clock, daily_reset_hour, s_restarts, pause_day>>
    /\ UNCHANGED notSafetyVars

InitializeReceiver(r, starting_balance, current_equity) ==
    /\ ledger' = Put(ledger, r, Initialized(EntryOrDefault(ledger, r),
                                            starting_balance, current_equity, Today))
    /\ Persisted(ledger')
    /\ s_last' = [NoCheck EXCEPT !.op = "initialize", !.receiver = r]
    /\ UNCHANGED <<clock, daily_reset_hour, s_restarts, pause_day>>
    /\ UNCHANGED notSafetyVars

UnpauseReceiver(r) ==
    /\ IF r \in DOMAIN ledger
       THEN /\ ledger' = Put(ledger, r, [ledger[r] EXCEPT !.is_safety_paused = FALSE,
                                                          !.pause_reason = None])
            /\ Persisted(ledger')
       ELSE UNCHANGED <<ledger, safety_file>>
    /\ pause_day' = [pause_day EXCEPT ![r] = None]
    /\ s_last' = [NoCheck EXCEPT !.op = "unpause", !.receiver = r]
    /\ UNCHANGED <<clock, daily_reset_hour, s_restarts>>
    /\ UNCHANGED notSafetyVars

SetDailyResetHour(hour) ==
    /\ daily_reset_hour' = ClampHour(hour)
    /\ s_last' = IF GetTradingDay(clock, daily_reset_hour') = Today THEN s_last
                 ELSE NoCheck
    /\ UNCHANGED <<clock, ledger, safety_file, s_restarts, pause_day>>
    /\ UNCHANGED notSafetyVars

\* load_safety_state: the reset hour and the ledger it leaves in memory
LoadedResetHour ==
    IF safety_file.exists THEN ClampHour(safety_file.daily_reset_hour_utc) ELSE 0

LoadedLedger(reset_hour) ==
    IF safety_file.exists
    THEN [r \in DOMAIN safety_file.receivers |->
            LoadedState(safety_file.receivers[r],
                        GetTradingDay(clock, reset_hour))]
    ELSE EmptyLedger

\* The process is started again: DAILY_RESET_HOUR starts at 0 and
\* load_safety_state fills SAFETY_STATE on first use.
SafetyRestart ==
    /\ s_restarts < MaxRestarts
    /\ s_restarts' = s_restarts + 1
    /\ daily_reset_hour' = LoadedResetHour
    /\ ledger' = LoadedLedger(LoadedResetHour)
    /\ s_last' = [NoCheck EXCEPT !.op = "restart"]
    /\ UNCHANGED <<clock, safety_file, pause_day>>
    /\ UNCHANGED notSafetyVars

NextSafety ==
    \/ SafetyTick
    \/ \E r \in LedgerReceivers, config \in SafetyConfigs, b \in Balances :
         CheckTradeSafety(r, config, b)
    \/ \E r \in LedgerReceivers : CheckDailyReset(r)
    \/ \E r \in LedgerReceivers, t \in TradeResults : RecordTradeResult(r, t[1], t[2])
    \/ \E r \in LedgerReceivers, e \in Equities : UpdateEquity(r, e)
    \/ \E r \in LedgerReceivers, b \in Balances \ {0}, e \in Equities :
         InitializeReceiver(r, b, e)
    \/ \E r \in LedgerReceivers : UnpauseReceiver(r)
    \/ \E hour \in ResetHours : SetDailyResetHour(hour)
    \/ SafetyRestart

\* every safety configuration check_trade_safety can be given: each limit
\* absent or set, with values the ledger's inputs reach, miss and approach
AllSafetyConfigs ==
    [max_daily_loss_amount : {None, Some(400)},
     max_daily_loss_percent : {None, Some(3)},
     max_drawdown_percent : {None, Some(10)},
     min_equity : {None, Some(9000)},
     max_trades_per_day : {None, Some(3)},
     prop_firm_safe_mode : BOOLEAN,
     max_consecutive_losses : {None, Some(1)}]

RuleEquities == {0, 8900, 9100, 10000}
RuleTradeResults == {<<-250, FALSE>>, <<100, TRUE>>}

\* record_trade_result, for as many trades of a day as the rules need
RecordTradeResultInDay(r, pnl, is_winner) ==
    /\ EntryOrDefault(ledger, r).trades_today < MaxRuleTrades
    /\ ledger' = Put(ledger, r, WithTradeResult(EntryOrDefault(ledger, r), pnl, is_winner))
    /\ Persisted(ledger')
    /\ s_last' = [NoCheck EXCEPT !.op = "record", !.receiver = r]
    /\ UNCHANGED <<clock, daily_reset_hour, s_restarts, pause_day>>
    /\ UNCHANGED notSafetyVars

\* the ledger's operations within one trading day, with every configuration
NextRules ==
    \/ \E r \in LedgerReceivers, config \in AllSafetyConfigs, b \in Balances :
         CheckTradeSafety(r, config, b)
    \/ \E r \in LedgerReceivers, t \in RuleTradeResults :
         RecordTradeResultInDay(r, t[1], t[2])
    \/ \E r \in LedgerReceivers, e \in RuleEquities : UpdateEquity(r, e)
    \/ \E r \in LedgerReceivers : UnpauseReceiver(r)

(***************************************************************************)
(* Position reconciliation.  Volumes are in hundredths of a lot and prices *)
(* in points of 0.00001, so the tolerances of find_discrepancies are exact.*)
(***************************************************************************)
\* SL_TP_TOLERANCE = 0.0001, in points
SL_TP_TOLERANCE == 10

Abs(x) == IF x < 0 THEN -x ELSE x

MasterPosition(position_id, direction, volume, sl, tp) ==
    [position_id |-> position_id, symbol |-> "EURUSD", direction |-> direction,
     volume |-> volume, sl |-> sl, tp |-> tp]

ReceiverPosition(position_id, master_position_id, direction, volume, sl, tp) ==
    [position_id |-> position_id, master_position_id |-> master_position_id,
     symbol |-> "EURUSD", direction |-> direction, volume |-> volume,
     sl |-> sl, tp |-> tp]

Discrepancy(type, master_position, receiver_id, receiver_position) ==
    [discrepancy_type |-> type, master_position |-> master_position,
     receiver_id |-> receiver_id, receiver_position |-> receiver_position]

\* receiver_positions.iter().find(|r| r.master_position_id == id): the index of
\* the first match, 0 when there is none
FindMapped(receiver_positions, id) ==
    IF \E i \in 1..Len(receiver_positions) :
            receiver_positions[i].master_position_id = id
    THEN CHOOSE i \in 1..Len(receiver_positions) :
            /\ receiver_positions[i].master_position_id = id
            /\ \A j \in 1..(i - 1) : receiver_positions[j].master_position_id # id
    ELSE 0

\* the SL (or TP) check of find_discrepancies for one master level
LevelMismatch(master_level, receiver_level) ==
    /\ master_level > 0
    /\ IF receiver_level # None
       THEN Abs(master_level - receiver_level[1]) > SL_TP_TOLERANCE
       ELSE TRUE

\* the discrepancies find_discrepancies pushes for one master position
MasterDiscrepancies(master_pos, receiver_positions, receiver_id) ==
    LET i == FindMapped(receiver_positions, master_pos.position_id)
        recv == receiver_positions[i]
        D(type) == Discrepancy(type, Some(master_pos), receiver_id, Some(recv))
    IN  IF i = 0
        THEN <<Discrepancy("missing_on_receiver", Some(master_pos), receiver_id, None)>>
        ELSE (IF Abs(master_pos.volume - recv.volume) * 10 > master_pos.volume
              THEN <<D("volume_mismatch")>> ELSE <<>>)
             \o (IF master_pos.direction # recv.direction
                 THEN <<D("direction_mismatch")>> ELSE <<>>)
             \o (IF LevelMismatch(master_pos.sl, recv.sl)
                 THEN <<D("sl_mismatch")>> ELSE <<>>)
             \o (IF LevelMismatch(master_pos.tp, recv.tp)
                 THEN <<D("tp_mismatch")>> ELSE <<>>)

RECURSIVE MissingAndMismatched(_, _, _)
MissingAndMismatched(master_positions, receiver_positions, receiver_id) ==
    IF master_positions = <<>> THEN <<>>
    ELSE MasterDiscrepancies(Head(master_positions), receiver_positions, receiver_id)
         \o MissingAndMismatched(Tail(master_positions), receiver_positions, receiver_id)

RECURSIVE Orphaned(_, _, _)
Orphaned(master_positions, receiver_positions, receiver_id) ==
    IF receiver_positions = <<>> THEN <<>>
    ELSE (IF \E i \in 1..Len(master_positions) :
                master_positions[i].position_id
                    = Head(receiver_positions).master_position_id
          THEN <<>>
          ELSE <<Discrepancy("orphaned_on_receiver", None, receiver_id,
                             Some(Head(receiver_positions)))>>)
         \o Orphaned(master_positions, Tail(receiver_positions), receiver_id)

FindDiscrepancies(master_positions, receiver_positions, receiver_id) ==
    MissingAndMismatched(master_positions, receiver_positions, receiver_id)
    \o Orphaned(master_positions, receiver_positions, receiver_id)

\* the SyncCommand constructors handle_discrepancy uses
OpenPosition(master_pos) ==
    [command_type |-> "open", position_id |-> None,
     master_position_id |-> Some(master_pos.position_id),
     direction |-> Some(master_pos.direction), volume |-> Some(master_pos.volume),
     sl |-> Some(master_pos.sl), tp |-> Some(master_pos.tp)]

ClosePosition(receiver_position_id) ==
    [command_type |-> "close", position_id |-> Some(receiver_position_id),
     master_position_id |-> None, direction |-> None, volume |-> None,
     sl |-> None, tp |-> None]

ModifySlTp(receiver_position_id, sl, tp) ==
    [command_type |-> "modify_sl_tp", position_id |-> Some(receiver_position_id),
     master_position_id |-> None, direction |-> None, volume |-> None,
     sl |-> Some(sl), tp |-> Some(tp)]

Handling(command, action_type) == [command |-> command, action_type |-> action_type]
NotHandled == Handling(None, "none")

\* the variant of handle_discrepancy that adjusts volumes when asked to
HandleDiscrepancyAdjustingVolume(discrepancy, config) ==
    IF discrepancy.discrepancy_type = "volume_mismatch" /\ config.auto_adjust_volume
    THEN Handling(Some(OpenPosition(discrepancy.master_position[1])), "adjust_volume")
    ELSE NotHandled
\* handle_discrepancy, up to the call of write_sync_command: the command it
\* builds and the type of the action it will log, if any
HandleDiscrepancy(discrepancy, config) ==
    LET type == discrepancy.discrepancy_type
        master_pos == discrepancy.master_position
        recv_pos == discrepancy.receiver_position
    IN  IF type = "missing_on_receiver"
        THEN IF config.auto_open_missing /\ master_pos # None
             THEN Handling(Some(OpenPosition(master_pos[1])), "open_missing")
             ELSE NotHandled
        ELSE IF type = "orphaned_on_receiver"
        THEN IF config.auto_close_orphaned /\ recv_pos # None
             THEN Handling(Some(ClosePosition(recv_pos[1].position_id)), "close_orphaned")
             ELSE NotHandled
        ELSE IF type \in {"sl_mismatch", "tp_mismatch"}
        THEN IF config.auto_sync_sl_tp /\ master_pos # None /\ recv_pos # None
             THEN Handling(Some(ModifySlTp(recv_pos[1].position_id,
                                           master_pos[1].sl, master_pos[1].tp)),
                           "modify_sl_tp")
             ELSE NotHandled
        ELSE NotHandled

\* state.actions_taken.push(action), keeping the last MaxActionsTaken
PushAction(actions, action) ==
    LET a1 == Append(actions, action)
    IN  IF Len(a1) > MaxActionsTaken THEN Tail(a1) ELSE a1

\* write_sync_command: the file sync_<ms>.json of the receiver, created or
\* replaced
WriteSyncCommand(files, receiver_id, ms, command) ==
    [files EXCEPT ![receiver_id] =
        [f \in DOMAIN files[receiver_id] \cup {ms} |->
            IF f = ms THEN command ELSE files[receiver_id][f]]]

ReconciliationAction(receiver_id, action_type, success) ==
    [receiver_id |-> receiver_id, action_type |-> action_type,
     symbol |-> "EURUSD", success |-> success]

ReconReceivers == {"recv_1"}
LoopThreads == {"loop_1", "loop_2"}
\* the thread of the first start_reconciliation_loop
FirstLoopThread == {"loop_1"}

ReconciliationConfig(enabled, close_orphaned, open_missing, adjust_volume, sync_sl_tp) ==
    [enabled |-> enabled, auto_close_orphaned |-> close_orphaned,
     auto_open_missing |-> open_missing, auto_adjust_volume |-> adjust_volume,
     auto_sync_sl_tp |-> sync_sl_tp]

\* ReconciliationConfig::default(); interval_secs only sets the length of the
\* loop's sleep
DefaultReconciliationConfig == ReconciliationConfig(FALSE, FALSE, FALSE, FALSE, TRUE)

AllReconciliationConfigs ==
    {ReconciliationConfig(e, c, o, v, s) : e, c, o, v, s \in BOOLEAN}

\* the configurations the commands set_reconciliation_config and
\* update_recon_config are called with
LoopConfigs ==
    {c \in AllReconciliationConfigs : c.auto_sync_sl_tp /\ ~c.auto_adjust_volume}

\* what the terminals can hold: one master position and a receiver row that
\* matches it, differs from it, or maps a position the master no longer has
Master1 == MasterPosition(1, "buy", 100, 110000, 120000)
MasterLists == {<<>>, <<Master1>>}
ReceiverLists ==
    {<<>>,
     <<ReceiverPosition(11, 1, "buy", 100, Some(110000), Some(120000))>>,
     <<ReceiverPosition(11, 1, "buy", 50, Some(110000), Some(120000))>>,
     <<ReceiverPosition(11, 1, "sell", 100, Some(110000), Some(120000))>>,
     <<ReceiverPosition(11, 1, "buy", 100, None, Some(120500))>>,
     <<ReceiverPosition(12, 2, "buy", 100, None, None)>>}

\* every discrepancy find_discrepancies can report on them
Discrepancies ==
    UNION {Range(FindDiscrepancies(m, rs, r)) :
            m \in MasterLists, rs \in ReceiverLists, r \in ReconReceivers}

DeadLoop == [pc |-> "dead", config |-> DefaultReconciliationConfig,
             master |-> <<>>, receivers |-> <<>>, receiver |-> "none", todo |-> <<>>]

NoHandled == [op |-> "none", type |-> "none", auto_adjust_volume |-> FALSE]

InitRecon ==
    /\ recon_ms = 0
    /\ recon_state = [config |-> DefaultReconciliationConfig,
                      master_terminal_id |-> None, receiver_terminal_ids |-> <<>>,
                      last_run |-> None, actions_taken |-> <<>>]
    /\ recon_shutdown = FALSE
    /\ loops = [t \in LoopThreads |-> DeadLoop]
    /\ command_files = [r \in ReconReceivers |-> [f \in {} |-> NotHandled]]
    /\ recon_last = NoHandled

ReconTick ==
    /\ recon_ms < MaxReconMs
    /\ recon_ms' = recon_ms + 1
    /\ UNCHANGED <<recon_state, recon_shutdown, loops, command_files, recon_last>>
    /\ UNCHANGED notReconVars

InitReconciliation(master_terminal_id, receiver_terminal_ids, config) ==
    /\ recon_state' = [recon_state EXCEPT
                         !.master_terminal_id = Some(master_terminal_id),
                         !.receiver_terminal_ids = receiver_terminal_ids,
                         !.config = config]
    /\ UNCHANGED <<recon_ms, recon_shutdown, loops, command_files, recon_last>>
    /\ UNCHANGED notReconVars

UpdateReconciliationConfig(config) ==
    /\ recon_state' = [recon_state EXCEPT !.config = config]
    /\ UNCHANGED <<recon_ms, recon_shutdown, loops, command_files, recon_last>>
    /\ UNCHANGED notReconVars

\* start_reconciliation_loop; t is the thread that thread::spawn creates
StartReconciliationLoop(t) ==
    /\ recon_shutdown' = FALSE
    /\ loops[t].pc = "dead"
    /\ loops' = [loops EXCEPT ![t] = [DeadLoop EXCEPT !.pc = "top"]]
    /\ UNCHANGED <<recon_ms, recon_state, command_files, recon_last>>
    /\ UNCHANGED notReconVars

StopReconciliationLoop ==
    /\ recon_shutdown' = TRUE
    /\ UNCHANGED <<recon_ms, recon_state, loops, command_files, recon_last>>
    /\ UNCHANGED notReconVars

\* handle_discrepancy on the shared state: the command file written, unless the
\* write fails, and the action pushed to actions_taken
Handled(receiver_id, discrepancy, config, write_ok) ==
    LET h == HandleDiscrepancy(discrepancy, config)
    IN  /\ command_files' =
             IF h.command # None /\ write_ok
             THEN WriteSyncCommand(command_files, receiver_id, recon_ms, h.command[1])
             ELSE command_files
        /\ recon_state' =
             IF h.command # None
             THEN [recon_state EXCEPT !.actions_taken =
                     PushAction(@, ReconciliationAction(receiver_id, h.action_type, write_ok))]
             ELSE recon_state

\* The loop, at its top: leave on shutdown, else take a copy of the
\* configuration and, when enabled and initialised, read the master's
\* positions and start a cycle.
LoopTop(t, read_ok, master_positions) ==
    /\ loops[t].pc = "top"
    /\ loops' = [loops EXCEPT ![t] =
         IF recon_shutdown THEN DeadLoop
         ELSE IF /\ recon_state.config.enabled
                 /\ recon_state.master_terminal_id # None
                 /\ recon_state.receiver_terminal_ids # <<>>
                 /\ read_ok
              THEN [DeadLoop EXCEPT !.pc = "scan",
                                    !.config = recon_state.config,
                                    !.master = master_positions,
                                    !.receivers = recon_state.receiver_terminal_ids]
              ELSE [DeadLoop EXCEPT !.pc = "sleep"]]
    /\ UNCHANGED <<recon_ms, recon_state, recon_shutdown, command_files, recon_last>>
    /\ UNCHANGED notReconVars

\* run_reconciliation_cycle, one receiver: read its positions and find the
\* discrepancies; after the last receiver, set last_run
LoopScan(t, read_ok, receiver_positions) ==
    /\ loops[t].pc = "scan"
    /\ IF loops[t].receivers = <<>>
       THEN /\ recon_state' = [recon_state EXCEPT !.last_run = Some(recon_ms)]
            /\ loops' = [loops EXCEPT ![t] = [DeadLoop EXCEPT !.pc = "sleep"]]
       ELSE LET receiver_id == Head(loops[t].receivers)
                found == IF read_ok
                         THEN FindDiscrepancies(loops[t].master,
                                                receiver_positions, receiver_id)
                         ELSE <<>>
            IN  /\ loops' = [loops EXCEPT ![t].receivers = Tail(@),
                                          ![t].receiver = receiver_id,
                                          ![t].todo = found,
                                          ![t].pc = IF found = <<>> THEN "scan"
                                                    ELSE "handle"]
                /\ UNCHANGED recon_state
    /\ UNCHANGED <<recon_ms, recon_shutdown, command_files, recon_last>>
    /\ UNCHANGED notReconVars

\* run_reconciliation_cycle, one discrepancy: handle_discrepancy with the copy
\* of the configuration taken at the top of the loop
LoopHandle(t, write_ok) ==
    /\ loops[t].pc = "handle"
    /\ Handled(loops[t].receiver, Head(loops[t].todo), loops[t].config, write_ok)
    /\ loops' = [loops EXCEPT ![t].todo = Tail(@),
                              ![t].pc = IF Tail(loops[t].todo) = <<>> THEN "scan"
                                        ELSE "handle"]
    /\ UNCHANGED <<recon_ms, recon_shutdown, recon_last>>
    /\ UNCHANGED notReconVars

\* the sleep between two cycles ends, by time or by shutdown
LoopWake(t) ==
    /\ loops[t].pc = "sleep"
    /\ loops' = [loops EXCEPT ![t].pc = "top"]
    /\ UNCHANGED <<recon_ms, recon_state, recon_shutdown, command_files, recon_last>>
    /\ UNCHANGED notReconVars

\* trigger_reconciliation reports the discrepancies and sets last_run
TriggerReconciliation ==
    /\ recon_state.master_terminal_id # None
    /\ recon_state.receiver_terminal_ids # <<>>
    /\ recon_state' = [recon_state EXCEPT !.last_run = Some(recon_ms)]
    /\ UNCHANGED <<recon_ms, recon_shutdown, loops, command_files, recon_last>>
    /\ UNCHANGED notReconVars

\* handle_discrepancy called on its own, for any discrepancy and configuration
HandleAny(r, discrepancy, config, write_ok) ==
    /\ Handled(r, discrepancy, config, write_ok)
    /\ recon_last' = [op |-> "handle", type |-> discrepancy.discrepancy_type,
                      auto_adjust_volume |-> config.auto_adjust_volume]
    /\ UNCHANGED <<recon_ms, recon_shutdown, loops>>
    /\ UNCHANGED notReconVars

ReceiverIdLists == {<<>>} \cup {<<r>> : r \in ReconReceivers}

NextRecon ==
    \/ ReconTick
    \/ \E ids \in ReceiverIdLists, config \in LoopConfigs :
         InitReconciliation("master", ids, config)
    \/ \E config \in LoopConfigs : UpdateReconciliationConfig(config)
    \/ \E t \in FirstLoopThread : StartReconciliationLoop(t)
    \/ StopReconciliationLoop
    \/ \E t \in LoopThreads, read_ok \in BOOLEAN, m \in MasterLists :
         LoopTop(t, read_ok, m)
    \/ \E t \in LoopThreads, read_ok \in BOOLEAN, rs \in ReceiverLists :
         LoopScan(t, read_ok, rs)
    \/ \E t \in LoopThreads, write_ok \in BOOLEAN : LoopHandle(t, write_ok)
    \/ \E t \in LoopThreads : LoopWake(t)
    \/ TriggerReconciliation

NextHandle ==
    \E r \in ReconReceivers, d \in Discrepancies,
       config \in AllReconciliationConfigs, write_ok \in BOOLEAN :
        HandleAny(r, d, config, write_ok)

(***************************************************************************)
(* File-watch ingestor with its idempotency store, and the fan-out of one  *)
(* event to the receivers of the configuration.  Filesystem calls succeed  *)
(* unless the process dies at them; a crash loses everything but the       *)
(* files.  Event fields are free of ':' and of line breaks, as the ticket  *)
(* numbers, symbols and timestamps of a terminal are.                      *)
(***************************************************************************)
TradeEvent(event_type, ticket, deal_id, symbol, direction, timestamp) ==
    [event_type |-> event_type, ticket |-> ticket, deal_id |-> deal_id,
     symbol |-> symbol, direction |-> direction, timestamp |-> timestamp]

Events ==
    {TradeEvent("entry", 12345, Some(67890), "EURUSD", "buy", "t1"),
     TradeEvent("modify", 12345, None, "EURUSD", "buy", "t2")}

\* what a file of the pending folder holds: the JSON of one TradeEvent, or
\* text that serde_json::from_str rejects
FileContents == {Some(e) : e \in Events} \cup {None}

EventFile(name, content) == [name |-> name, content |-> content]

UnwrapOr(opt, default) == IF opt = None THEN default ELSE opt[1]

\* format!("{}:{}:{}:{}:{}", ..): the five fields in this order
GenerateIdempotencyKey(event_type, ticket, deal_id, symbol, timestamp) ==
    <<event_type, ticket, deal_id, symbol, timestamp>>

\* the key process_event_file computes for an event
EventKey(event) ==
    GenerateIdempotencyKey(event.event_type, event.ticket,
                           UnwrapOr(event.deal_id, 0), event.symbol,
                           event.timestamp)

Keys == {EventKey(e) : e \in Events}

\* IdempotencyCache
NewCache == [keys_order |-> <<>>, keys_set |-> {}]

FromKeys(keys) == [keys_order |-> keys, keys_set |-> Range(keys)]

ContainsNothing(cache, key) == FALSE
Contains(cache, key) == key \in cache.keys_set

\* the pruning loop of insert: pop the front while the set is at capacity;
\* max_keys stands for MAX_KEYS_IN_MEMORY
RECURSIVE PrunedTo(_, _)
PrunedTo(cache, max_keys) ==
    IF Cardinality(cache.keys_set) >= max_keys /\ cache.keys_order # <<>>
    THEN PrunedTo([keys_order |-> Tail(cache.keys_order),
                   keys_set |-> cache.keys_set \ {Head(cache.keys_order)}],
                  max_keys)
    ELSE cache

\* insert with MAX_KEYS_IN_MEMORY = max_keys: prune, then add the key if the
\* set does not hold it
InsertAtNothing(cache, key, max_keys) == cache
InsertAt(cache, key, max_keys) ==
    LET c == PrunedTo(cache, max_keys)
    IN  IF key \in c.keys_set THEN c
        ELSE [keys_order |-> Append(c.keys_order, key),
              keys_set |-> c.keys_set \cup {key}]

InsertNothing(cache, key) == cache
Insert(cache, key) == InsertAt(cache, key, MaxKeysInMemory)

\* clear
Cleared(cache) == [keys_order |-> <<>>, keys_set |-> {}]

ToVec(cache) == cache.keys_order

\* processed_events.txt and processed_events.tmp: one key per line
NoKeysFile == [exists |-> FALSE, lines |-> <<>>]
KeysFile(keys) == [exists |-> TRUE, lines |-> keys]

\* content.lines().filter(|line| !line.is_empty()): an empty line is <<>>
NonEmpty(line) == line # <<>>
NonEmptyLines(lines) == SelectSeq(lines, NonEmpty)

\* load_processed_keys with MAX_KEYS_IN_MEMORY = max_keys
LoadKeysFirst(file, max_keys) ==
    IF ~file.exists THEN <<>>
    ELSE LET keys == NonEmptyLines(file.lines)
         IN  IF Len(keys) > max_keys THEN SubSeq(keys, 1, max_keys) ELSE keys
LoadKeysAt(file, max_keys) ==
    IF ~file.exists THEN <<>>
    ELSE LET keys == NonEmptyLines(file.lines)
             n == Len(keys)
         IN  IF n > max_keys THEN SubSeq(keys, n - max_keys + 1, n) ELSE keys

LoadNoKeys(file) == <<>>
LoadProcessedKeys(file) == LoadKeysAt(file, MaxKeysInMemory)

\* the keys the idempotency store holds, in memory and on disk
InStore(key) ==
    /\ Contains(processed_keys, key)
    /\ key \in Range(processed_file.lines)

\* CopierConfig and ReceiverConfig, the fields the fan-out reads
ReceiverConfig(account_number, max_daily_loss_r, prop_firm_safe_mode) ==
    [account_number |-> account_number, max_daily_loss_r |-> max_daily_loss_r,
     prop_firm_safe_mode |-> prop_firm_safe_mode]

CopierConfigs ==
    {[receivers |-> <<ReceiverConfig("recv_1", None, FALSE),
                      ReceiverConfig("recv_2", Some(0), FALSE)>>]}

\* CopierState::default()
DefaultCopierState ==
    [config |-> None, is_running |-> FALSE, trades_today |-> 0,
     last_error |-> None, recent_executions |-> <<>>]

\* the SafetyConfig process_event builds for a receiver
ReceiverSafetyConfig(receiver) ==
    [DefaultSafetyConfig EXCEPT
        !.max_daily_loss_percent = receiver.max_daily_loss_r,
        !.prop_firm_safe_mode = receiver.prop_firm_safe_mode]

\* receiver_account.map(|a| a.balance).unwrap_or(10000.0)
AccountInfos == {None, Some([balance |-> 5000])}
StartingBalance(receiver_account) ==
    IF receiver_account = None THEN 10000 ELSE receiver_account[1].balance

Execution(event, status, error_message, receiver_account) ==
    [event_type |-> event.event_type, symbol |-> event.symbol,
     direction |-> event.direction, status |-> status,
     error_message |-> error_message, receiver_account |-> receiver_account]

\* recent_executions.insert(0, execution), capped
WithoutExecution(list, execution) == list
WithExecution(list, execution) ==
    LET l == <<execution>> \o list
    IN  IF Len(l) > RecentExecutionsCap THEN SubSeq(l, 1, Len(l) - 1) ELSE l

\* the watch thread between two files
Idle == [pc |-> "idle", path |-> 0, event |-> None, config |-> None, i |-> 0]

NoStep == [op |-> "none", path |-> 0, key |-> None]

FileAt(path) == {f \in pending_dir : f.name = path}

\* what process_event_file decides about a file before it marks the key
TriageWithoutRunningCheck(path) ==
    IF FileAt(path) = {} THEN "unreadable"
    ELSE LET file == CHOOSE f \in FileAt(path) : TRUE
         IN  IF file.content = None THEN "malformed"
             ELSE IF Contains(processed_keys, EventKey(file.content[1]))
                  THEN "duplicate"
             ELSE "mark"
Triage(path) ==
    IF FileAt(path) = {} THEN "unreadable"
    ELSE LET file == CHOOSE f \in FileAt(path) : TRUE
         IN  IF file.content = None THEN "malformed"
             ELSE IF Contains(processed_keys, EventKey(file.content[1]))
                  THEN "duplicate"
             ELSE IF ~copier.is_running THEN "not_running"
             ELSE IF copier.config = None THEN "no_config"
             ELSE "mark"

EventAt(path) ==
    IF Triage(path) \in {"unreadable", "malformed"} THEN None
    ELSE (CHOOSE f \in FileAt(path) : TRUE).content

KeyAt(path) == IF EventAt(path) = None THEN None ELSE Some(EventKey(EventAt(path)[1]))

InitIngest ==
    /\ pending_dir = {}
    /\ next_file = 0
    /\ to_process = <<>>
    /\ watcher = Idle
    /\ processed_keys = NewCache
    /\ processed_file = NoKeysFile
    /\ processed_tmp = NoKeysFile
    /\ copier = DefaultCopierState
    /\ i_crashes = 0
    /\ fanned_out = [k \in Keys |-> 0]
    /\ executed = [p \in Keys \X Receivers |-> 0]
    /\ evicted = {}
    /\ deleted_after_fanout = {}
    /\ i_last = NoStep

\* The master EA writes an event file; its creation reaches the watcher's
\* channel.
MasterWritesFile(content) ==
    /\ next_file < MaxDrops
    /\ next_file' = next_file + 1
    /\ pending_dir' = pending_dir \cup {EventFile(next_file', content)}
    /\ to_process' = Append(to_process, next_file')
    /\ UNCHANGED <<watcher, processed_keys, processed_file, processed_tmp,
                   copier, i_crashes, fanned_out, executed, evicted,
                   deleted_after_fanout, i_last>>
    /\ UNCHANGED notIngestVars

\* sync_config, and the tray's "sync"
SyncConfig(config) ==
    /\ copier' = [copier EXCEPT !.config = Some(config)]
    /\ UNCHANGED <<pending_dir, next_file, to_process, watcher, processed_keys,
                   processed_file, processed_tmp, i_crashes, fanned_out,
                   executed, evicted, deleted_after_fanout, i_last>>
    /\ UNCHANGED notIngestVars

\* start_copier, and the tray's "start"
StartCopier ==
    /\ copier.config # None
    /\ copier' = [copier EXCEPT !.is_running = TRUE]
    /\ UNCHANGED <<pending_dir, next_file, to_process, watcher, processed_keys,
                   processed_file, processed_tmp, i_crashes, fanned_out,
                   executed, evicted, deleted_after_fanout, i_last>>
    /\ UNCHANGED notIngestVars

\* stop_copier, and the tray's "stop"
StopCopier ==
    /\ copier' = [copier EXCEPT !.is_running = FALSE]
    /\ UNCHANGED <<pending_dir, next_file, to_process, watcher, processed_keys,
                   processed_file, processed_tmp, i_crashes, fanned_out,
                   executed, evicted, deleted_after_fanout, i_last>>
    /\ UNCHANGED notIngestVars

\* process_event_file up to cache.insert in mark_event_processed: read, parse,
\* duplicate check, running and configuration checks
ProcessEventFile ==
    /\ watcher.pc = "idle"
    /\ to_process # <<>>
    /\ LET path == Head(to_process)
           outcome == Triage(path)
           event == EventAt(path)
           inserted == Insert(processed_keys, EventKey(event[1]))
       IN  /\ to_process' = Tail(to_process)
           /\ pending_dir' = IF outcome \in {"malformed", "duplicate"}
                             THEN pending_dir \ FileAt(path)
                             ELSE pending_dir
           /\ processed_keys' = IF outcome = "mark" THEN inserted
                                ELSE processed_keys
           /\ evicted' = IF outcome = "mark"
                         THEN evicted \cup (processed_keys.keys_set \ inserted.keys_set)
                         ELSE evicted
           /\ watcher' = IF outcome = "mark"
                         THEN [pc |-> "write_temp", path |-> path,
                               event |-> event, config |-> copier.config,
                               i |-> 0]
                         ELSE watcher
           /\ deleted_after_fanout' =
                  IF outcome = "duplicate" /\ fanned_out[EventKey(event[1])] > 0
                  THEN deleted_after_fanout \cup {EventKey(event[1])}
                  ELSE deleted_after_fanout
           /\ i_last' = [op |-> outcome, path |-> path, key |-> KeyAt(path)]
    /\ UNCHANGED <<next_file, processed_file, processed_tmp, copier, i_crashes,
                   fanned_out, executed>>
    /\ UNCHANGED notIngestVars

\* save_processed_keys: fs::write(temp_path)
SaveWriteTemp ==
    /\ watcher.pc = "write_temp"
    /\ processed_tmp' = KeysFile(ToVec(processed_keys))
    /\ watcher' = [watcher EXCEPT !.pc = "rename"]
    /\ UNCHANGED <<pending_dir, next_file, to_process, processed_keys,
                   processed_file, copier, i_crashes, fanned_out, executed,
                   evicted, deleted_after_fanout, i_last>>
    /\ UNCHANGED notIngestVars

\* save_processed_keys: fs::rename(temp_path, path)
SaveRename ==
    /\ watcher.pc = "rename"
    /\ processed_file' = processed_tmp
    /\ processed_tmp' = NoKeysFile
    /\ watcher' = [watcher EXCEPT !.pc = "process_event"]
    /\ i_last' = [op |-> "marked", path |-> watcher.path,
                  key |-> Some(EventKey(watcher.event[1]))]
    /\ UNCHANGED <<pending_dir, next_file, to_process, processed_keys, copier,
                   i_crashes, fanned_out, executed, evicted,
                   deleted_after_fanout>>
    /\ UNCHANGED notIngestVars

\* process_event_file calls event_processor::process_event
ProcessEvent ==
    /\ watcher.pc = "process_event"
    /\ fanned_out' = [fanned_out EXCEPT ![EventKey(watcher.event[1])] = @ + 1]
    /\ watcher' = [watcher EXCEPT !.pc = "receiver", !.i = 1]
    /\ i_last' = [op |-> "fan_out", path |-> watcher.path,
                  key |-> Some(EventKey(watcher.event[1]))]
    /\ UNCHANGED <<pending_dir, next_file, to_process, processed_keys,
                   processed_file, processed_tmp, copier, i_crashes, executed,
                   evicted, deleted_after_fanout>>
    /\ UNCHANGED notIngestVars

\* one round of process_event's loop over config.receivers: safety check,
\* then either a blocked execution or execute_trade and its execution
FanOutToReceiver(receiver_account, trade_ok) ==
    /\ watcher.pc = "receiver"
    /\ watcher.i <= Len(watcher.config[1].receivers)
    /\ LET receiver == watcher.config[1].receivers[watcher.i]
           r == receiver.account_number
           event == watcher.event[1]
           o == CheckOutcome(ledger, r, ReceiverSafetyConfig(receiver),
                             StartingBalance(receiver_account), Today)
           status == IF o.verdict = "blocked" THEN "blocked"
                     ELSE IF trade_ok THEN "success" ELSE "error"
           error_message == IF status = "blocked" THEN Some("blocked")
                            ELSE IF status = "error" THEN Some("trade_error")
                            ELSE None
       IN  /\ ledger' = o.ledger
           /\ IF o.persisted THEN Persisted(o.ledger) ELSE UNCHANGED safety_file
           /\ pause_day' = IF o.paused THEN [pause_day EXCEPT ![r] = Some(Today)]
                           ELSE pause_day
           /\ s_last' = [op |-> "check", receiver |-> r, verdict |-> o.verdict]
           /\ copier' = [copier EXCEPT
                 !.trades_today = IF status = "success" THEN @ + 1 ELSE @,
                 !.last_error = IF status = "error" THEN error_message ELSE @,
                 !.recent_executions =
                     WithExecution(@, Execution(event, status, error_message, r))]
           /\ executed' = [executed EXCEPT ![<<EventKey(event), r>>] = @ + 1]
    /\ watcher' = [watcher EXCEPT !.i = @ + 1]
    /\ UNCHANGED <<clock, daily_reset_hour, s_restarts>>
    /\ UNCHANGED <<pending_dir, next_file, to_process, processed_keys,
                   processed_file, processed_tmp, i_crashes, fanned_out,
                   evicted, deleted_after_fanout, i_last>>
    /\ UNCHANGED <<queueVars, reconVars, storeVars, watchVars,
                   calcVars, fineVars, fanVars>>

\* process_event has returned: fs::remove_file(path)
RemoveProcessedFile ==
    /\ watcher.pc = "receiver"
    /\ watcher.i > Len(watcher.config[1].receivers)
    /\ pending_dir' = pending_dir \ FileAt(watcher.path)
    /\ deleted_after_fanout' =
           deleted_after_fanout \cup {EventKey(watcher.event[1])}
    /\ watcher' = Idle
    /\ i_last' = [op |-> "deleted", path |-> watcher.path,
                  key |-> Some(EventKey(watcher.event[1]))]
    /\ UNCHANGED <<next_file, to_process, processed_keys, processed_file,
                   processed_tmp, copier, i_crashes, fanned_out, executed,
                   evicted>>
    /\ UNCHANGED notIngestVars

\* The process dies and is started again: CopierState::default(),
\* PROCESSED_KEYS and SAFETY_STATE are filled from their files on first use,
\* and watch_folder sweeps the files that are in the pending folder, in the
\* order read_dir lists them.
IngestRestart(sweep) ==
    /\ i_crashes < MaxIngestCrashes
    /\ i_crashes' = i_crashes + 1
    /\ sweep \in Orders({f.name : f \in pending_dir})
    /\ to_process' = sweep
    /\ watcher' = Idle
    /\ copier' = DefaultCopierState
    /\ processed_keys' = FromKeys(LoadProcessedKeys(processed_file))
    /\ evicted' = evicted \cup
                  Range(SubSeq(processed_file.lines, 1,
                               Len(processed_file.lines) - MaxKeysInMemory))
    /\ i_last' = [NoStep EXCEPT !.op = "restart"]
    /\ daily_reset_hour' = LoadedResetHour
    /\ ledger' = LoadedLedger(LoadedResetHour)
    /\ s_last' = [NoCheck EXCEPT !.op = "restart"]
    /\ UNCHANGED <<clock, safety_file, s_restarts, pause_day>>
    /\ UNCHANGED <<pending_dir, next_file, processed_file, processed_tmp,
                   fanned_out, executed, deleted_after_fanout>>
    /\ UNCHANGED <<queueVars, reconVars, storeVars, watchVars,
                   calcVars, fineVars, fanVars>>

NextIngestCrashFree ==
    \/ \E content \in FileContents : MasterWritesFile(content)
    \/ \E config \in CopierConfigs : SyncConfig(config)
    \/ StartCopier
    \/ StopCopier
    \/ ProcessEventFile
    \/ SaveWriteTemp
    \/ SaveRename
    \/ ProcessEvent
    \/ \E receiver_account \in AccountInfos, trade_ok \in BOOLEAN :
         FanOutToReceiver(receiver_account, trade_ok)
    \/ RemoveProcessedFile

NextIngest ==
    \/ NextIngestCrashFree
    \/ \E sweep \in Orders({f.name : f \in pending_dir}) : IngestRestart(sweep)

(***************************************************************************)
(* The idempotency store on its own, driven through its public functions:  *)
(* mark_event_processed, is_event_processed, clear_processed_keys, and the *)
(* load at the first use after a start.                                    *)
(***************************************************************************)
StoreKeys ==
    {GenerateIdempotencyKey("entry", ticket, 0, "EURUSD", "t1") :
        ticket \in 1..MaxStoreKeys}

\* a processed_events.txt that an earlier run left behind, with more lines
\* than the capacity and possibly an empty line
OldFiles ==
    LET full == UNION {Orders(S) : S \in {T \in SUBSET StoreKeys :
                                            Cardinality(T) = MaxStoreCap + 1}}
    IN  full \cup {<<o[1], <<>>>> \o Tail(o) : o \in full}

NoCall == [op |-> "none", key |-> None, result |-> FALSE,
           before |-> NewCache, arrival_before |-> <<>>]

\* the first key of a FIFO order, None when it is empty
Oldest(order) == IF order = <<>> THEN None ELSE Some(Head(order))

\* the order without the keys of a set
Without(order, gone) == SelectSeq(order, LAMBDA k : k \notin gone)

InitStore ==
    /\ store = NewCache
    /\ store_file = NoKeysFile
    /\ store_log = [live |-> {}, arrival |-> <<>>, saved |-> Some(NewCache),
                    last |-> NoCall]

\* mark_event_processed: cache.insert, then save_processed_keys
MarkEventProcessed(key) ==
    LET after == InsertAt(store, key, MaxStoreCap)
        gone == store.keys_set \ after.keys_set
        arrival == Without(store_log.arrival, gone)
    IN  /\ store' = after
        /\ store_file' = KeysFile(ToVec(after))
        /\ store_log' =
             [live |-> (store_log.live \ gone) \cup {key},
              arrival |-> IF key \in Range(arrival) THEN arrival
                          ELSE Append(arrival, key),
              saved |-> Some(after),
              last |-> [op |-> "insert", key |-> Some(key), result |-> FALSE,
                        before |-> store,
                        arrival_before |-> store_log.arrival]]
        /\ UNCHANGED notStoreVars

\* is_event_processed
IsEventProcessed(key) ==
    /\ store_log' = [store_log EXCEPT
                        !.last = [op |-> "contains", key |-> Some(key),
                                  result |-> Contains(store, key),
                                  before |-> store,
                                  arrival_before |-> store_log.arrival]]
    /\ UNCHANGED <<store, store_file>>
    /\ UNCHANGED notStoreVars

\* clear_processed_keys: cache.clear, then save_processed_keys
ClearProcessedKeys ==
    /\ store' = Cleared(store)
    /\ store_file' = KeysFile(ToVec(store'))
    /\ store_log' = [live |-> {}, arrival |-> <<>>, saved |-> Some(store'),
                     last |-> [NoCall EXCEPT !.op = "clear", !.before = store,
                                  !.arrival_before = store_log.arrival]]
    /\ UNCHANGED notStoreVars

\* before the first start: the file of an earlier run is on disk
OldFileFound(lines) ==
    /\ store_file = NoKeysFile
    /\ store_log.last = NoCall
    /\ store_file' = KeysFile(lines)
    /\ store_log' = [store_log EXCEPT !.saved = None,
                                      !.last = [NoCall EXCEPT !.op = "old_file"]]
    /\ UNCHANGED store
    /\ UNCHANGED notStoreVars

\* the process is started again: PROCESSED_KEYS is built from
\* load_processed_keys at its first use
StoreReload ==
    /\ store_log.last.op # "reload"
    /\ store' = FromKeys(LoadKeysAt(store_file, MaxStoreCap))
    /\ store_log' = [live |-> store_log.live,
                     arrival |-> store'.keys_order,
                     saved |-> store_log.saved,
                     last |-> [NoCall EXCEPT !.op = "reload", !.before = store,
                                  !.arrival_before = store_log.arrival]]
    /\ UNCHANGED store_file
    /\ UNCHANGED notStoreVars

NextStore ==
    \/ \E key \in StoreKeys : MarkEventProcessed(key)
    \/ \E key \in StoreKeys : IsEventProcessed(key)
    \/ ClearProcessedKeys
    \/ \E lines \in OldFiles : OldFileFound(lines)
    \/ StoreReload

(***************************************************************************)
(* process_event and execute_trade, step by step: the loop over            *)
(* config.receivers, the safety check, the command file, the wait for the  *)
(* response file and the retries.                                          *)
(***************************************************************************)
\* RetryConfig::default().max_attempts
RETRY_MAX_ATTEMPTS == 3

\* the configurations process_event is called with: two receivers, each
\* without a loss limit, with a limit of 0 or with a limit of 4
FanOutConfigs ==
    {[receivers |-> <<ReceiverConfig("recv_1", l1, FALSE),
                      ReceiverConfig("recv_2", l2, FALSE)>>] :
        l1 \in {None, Some(0), Some(4)}, l2 \in {None, Some(0), Some(4)}}

\* the events process_event is called with
FanOutEvents == {e \in Events : e.event_type = "entry"}

\* the trade results that reach the ledger
Losses == {t \in TradeResults : ~t[2]}

\* what the wait for resp_<timestamp>.json ends with: a response with
\* success, a response with an error that is_retryable_error accepts, a
\* response with another error, or the 15 s timeout
WaitOutcomes == {"success", "requote", "rejected", "timeout"}

FanIdle == [pc |-> "idle", event |-> None, config |-> None, i |-> 0,
            attempt |-> 0]

NoFanLog ==
    [written |-> [r \in Receivers |-> 0],
     verdicts |-> [r \in Receivers |-> "none"],
     reasons |-> [r \in Receivers |-> "none"],
     awaited |-> {},
     delayed_by |-> [r \in Receivers |-> {}],
     added |-> 0,
     fanouts |-> 0]

InitFan ==
    /\ fan = FanIdle
    /\ cmd_folder = [r \in Receivers |-> 0]
    /\ fan_log = NoFanLog

\* the receiver of the current round of the loop
FanReceiver == fan.config[1].receivers[fan.i]

\* the next round of the loop, or the end of process_event
NextRound ==
    [fan EXCEPT !.pc = IF fan.i + 1 > Len(fan.config[1].receivers)
                       THEN "done" ELSE "check",
                !.i = fan.i + 1, !.attempt = 0]

\* the end of a round: the execution goes to the front of recent_executions
Recorded(status, error_message) ==
    /\ copier' = [copier EXCEPT
         !.trades_today = IF status = "success" THEN @ + 1 ELSE @,
         !.last_error = IF status = "error" THEN error_message ELSE @,
         !.recent_executions =
             WithExecution(@, Execution(fan.event[1], status, error_message,
                                        FanReceiver.account_number))]
    /\ fan' = NextRound

\* the arm of `match safety::check_trade_safety(..)` that is taken: Blocked,
\* or one of Warning and Allowed, which go on to the execution
NeverBlocked(o) == FALSE
BlockedVerdict(o) == o.verdict = "blocked"

\* process_event(event, config, state) is entered
ProcessEventEntered(event, config) ==
    /\ fan.pc \in {"idle", "done"}
    /\ fan_log.fanouts < MaxFanOuts
    /\ fan' = [pc |-> "check", event |-> Some(event), config |-> Some(config),
               i |-> 1, attempt |-> 0]
    /\ fan_log' = [NoFanLog EXCEPT !.fanouts = fan_log.fanouts + 1]
    /\ UNCHANGED cmd_folder
    /\ UNCHANGED <<queueVars, safetyVars, reconVars, ingestVars,
                   storeVars, watchVars, calcVars, fineVars>>

\* a round of the loop up to execute_trade: check_trade_safety, and for a
\* Blocked verdict record_blocked_execution and continue
ReceiverChecked(receiver_account) ==
    /\ fan.pc = "check"
    /\ LET r == FanReceiver.account_number
           o == CheckOutcome(ledger, r, ReceiverSafetyConfig(FanReceiver),
                             StartingBalance(receiver_account), Today)
       IN  /\ ledger' = o.ledger
           /\ IF o.persisted THEN Persisted(o.ledger) ELSE UNCHANGED safety_file
           /\ pause_day' = IF o.paused THEN [pause_day EXCEPT ![r] = Some(Today)]
                           ELSE pause_day
           /\ s_last' = [op |-> "check", receiver |-> r, verdict |-> o.verdict]
           /\ IF BlockedVerdict(o)
              THEN Recorded("blocked", Some(o.reason))
              ELSE /\ fan' = [fan EXCEPT !.pc = "write"]
                   /\ UNCHANGED copier
           /\ fan_log' = [fan_log EXCEPT
                 !.verdicts[r] = o.verdict,
                 !.reasons[r] = o.reason,
                 !.added = IF BlockedVerdict(o) THEN @ + 1 ELSE @]
    /\ UNCHANGED cmd_folder
    /\ UNCHANGED <<clock, daily_reset_hour, s_restarts>>
    /\ UNCHANGED <<pending_dir, next_file, to_process, watcher, processed_keys,
                   processed_file, processed_tmp, i_crashes, fanned_out,
                   executed, evicted, deleted_after_fanout, i_last>>
    /\ UNCHANGED <<queueVars, reconVars, storeVars, watchVars, calcVars, fineVars>>

\* execute_single_attempt up to the wait: tokio::fs::write of the command
\* file, which succeeds or fails with FileWriteError; a failed write is
\* retried after the backoff sleep until the attempts are used up
CommandWritten(write_ok) ==
    /\ fan.pc = "write"
    /\ LET r == FanReceiver.account_number
       IN  IF write_ok
           THEN /\ cmd_folder' = [cmd_folder EXCEPT ![r] = 1]
                /\ fan' = [fan EXCEPT !.pc = "wait"]
                /\ fan_log' = [fan_log EXCEPT
                      !.written[r] = @ + 1,
                      !.delayed_by[r] = IF fan_log.written[r] = 0
                                        THEN fan_log.awaited ELSE @]
                /\ UNCHANGED copier
           ELSE /\ UNCHANGED cmd_folder
                /\ IF fan.attempt + 1 < RETRY_MAX_ATTEMPTS
                   THEN /\ fan' = [fan EXCEPT !.attempt = @ + 1]
                        /\ UNCHANGED copier
                        /\ UNCHANGED fan_log
                   ELSE /\ Recorded("error", Some("file_write_error"))
                        /\ fan_log' = [fan_log EXCEPT !.added = @ + 1]
    /\ UNCHANGED <<pending_dir, next_file, to_process, watcher, processed_keys,
                   processed_file, processed_tmp, i_crashes, fanned_out,
                   executed, evicted, deleted_after_fanout, i_last>>
    /\ UNCHANGED <<queueVars, safetyVars, reconVars, storeVars,
                   watchVars, calcVars, fineVars>>

\* wait_for_response_async returns, and execute_trade_async goes on: the
\* receiver's EA has taken the command and answered, or 15 s have passed and
\* the command file is removed
ResponseAwaited(outcome) ==
    /\ fan.pc = "wait"
    /\ LET r == FanReceiver.account_number
           retry == outcome \in {"requote", "timeout"}
                      /\ fan.attempt + 1 < RETRY_MAX_ATTEMPTS
           status == IF outcome = "success" THEN "success" ELSE "error"
       IN  /\ cmd_folder' = [cmd_folder EXCEPT ![r] = 0]
           /\ IF retry
              THEN /\ fan' = [fan EXCEPT !.pc = "write", !.attempt = @ + 1]
                   /\ UNCHANGED copier
              ELSE Recorded(status, IF outcome = "success" THEN None
                                    ELSE Some(outcome))
           /\ fan_log' = [fan_log EXCEPT
                 !.awaited = @ \cup {r},
                 !.added = IF retry THEN @ ELSE @ + 1]
    /\ UNCHANGED <<pending_dir, next_file, to_process, watcher, processed_keys,
                   processed_file, processed_tmp, i_crashes, fanned_out,
                   executed, evicted, deleted_after_fanout, i_last>>
    /\ UNCHANGED <<queueVars, safetyVars, reconVars, storeVars,
                   watchVars, calcVars, fineVars>>

\* a trade of a receiver closes with a loss and its result reaches the
\* ledger, between two calls of process_event
TradeClosed(r, pnl, is_winner) ==
    /\ fan.pc = "idle"
    /\ RecordTradeResult(r, pnl, is_winner)

\* the trading day of a receiver is opened before the event arrives
DayOpened(r) ==
    /\ fan.pc = "idle"
    /\ CheckDailyReset(r)

NextFanOut ==
    \/ \E event \in FanOutEvents, config \in FanOutConfigs :
         ProcessEventEntered(event, config)
    \/ \E receiver_account \in AccountInfos : ReceiverChecked(receiver_account)
    \/ \E write_ok \in BOOLEAN : CommandWritten(write_ok)
    \/ \E outcome \in WaitOutcomes : ResponseAwaited(outcome)
    \/ \E r \in Receivers, t \in Losses : TradeClosed(r, t[1], t[2])
    \/ \E r \in Receivers : DayOpened(r)

(***************************************************************************)
(* The threads that run for as long as the agent does: the file-watch      *)
(* thread of start_watching and watch_folder with its shutdown flag, and   *)
(* the reconciliation loop threads with theirs.                            *)
(***************************************************************************)
InitWatch ==
    /\ watch_shutdown = FALSE
    /\ watch_loop = [pc |-> "outer", timeouts_after_shutdown |-> 0]

\* request_shutdown
RequestShutdown ==
    /\ watch_shutdown' = TRUE
    /\ UNCHANGED watch_loop
    /\ UNCHANGED notWatchVars

\* start_watching, the head of `while !is_shutdown_requested()`: the thread
\* ends on shutdown; with a master queue path it enters watch_folder, which
\* registers the watcher and sweeps the folder; without one it waits
WatchOuter(path_found) ==
    /\ watch_loop.pc = "outer"
    /\ watch_loop' = [watch_loop EXCEPT !.pc =
         IF watch_shutdown THEN "stopped"
         ELSE IF path_found THEN "inner" ELSE "wait"]
    /\ UNCHANGED watch_shutdown
    /\ UNCHANGED notWatchVars

\* start_watching, the wait of 50 slices of 100 ms after watch_folder has
\* returned or no path was found: a slice returns on shutdown, the last
\* slice goes back to the head of the loop
WatchWait(last_slice) ==
    /\ watch_loop.pc = "wait"
    /\ watch_loop' = [watch_loop EXCEPT !.pc =
         IF watch_shutdown THEN "stopped"
         ELSE IF last_slice THEN "outer" ELSE "wait"]
    /\ UNCHANGED watch_shutdown
    /\ UNCHANGED notWatchVars

\* watch_folder, the head of its loop: return Ok on shutdown, else block in
\* rx.recv_timeout(500 ms)
WatchInner ==
    /\ watch_loop.pc = "inner"
    /\ watch_loop' = [watch_loop EXCEPT !.pc =
         IF watch_shutdown THEN "wait" ELSE "recv"]
    /\ UNCHANGED watch_shutdown
    /\ UNCHANGED notWatchVars

\* watch_folder, rx.recv_timeout returns: with a Create event, whose file is
\* handled, or with the timeout after 500 ms
WatchRecv(timed_out) ==
    /\ watch_loop.pc = "recv"
    /\ watch_loop' = [pc |-> "inner",
                      timeouts_after_shutdown |->
                          IF timed_out /\ watch_shutdown
                          THEN watch_loop.timeouts_after_shutdown + 1
                          ELSE watch_loop.timeouts_after_shutdown]
    /\ UNCHANGED watch_shutdown
    /\ UNCHANGED notWatchVars

\* the command start_recon_loop; the quit handler that calls
\* request_shutdown ends the process, so no command is served after it
StartReconLoop(t) ==
    /\ ~watch_shutdown
    /\ StartReconciliationLoop(t)

\* a reconciliation loop thread at its top while reconciliation is disabled
\* or not initialised, or the master's positions cannot be read
LoopTopIdle(t) == LoopTop(t, FALSE, <<>>)

NextLoops ==
    \/ RequestShutdown
    \/ \E path_found \in BOOLEAN : WatchOuter(path_found)
    \/ \E last_slice \in BOOLEAN : WatchWait(last_slice)
    \/ WatchInner
    \/ \E timed_out \in BOOLEAN : WatchRecv(timed_out)
    \/ \E t \in LoopThreads : StartReconLoop(t)
    \/ StopReconciliationLoop
    \/ \E t \in LoopThreads : LoopTopIdle(t)
    \/ \E t \in LoopThreads : LoopWake(t)

(***************************************************************************)
(* The calculations that are called on their own: the position sync report *)
(* with find_discrepancies.                                                *)
(***************************************************************************)
\* a master position without stop loss and take profit
MasterNoStops == MasterPosition(2, "sell", 100, 0, 0)

ReportMasterLists == {<<>>, <<Master1>>, <<MasterNoStops>>, <<Master1, MasterNoStops>>}

\* the rows a receiver's copier-positions.json can hold: rows that match a
\* master position, rows at and beyond the tolerances of volume, SL and TP,
\* rows without levels, with another direction, and a row of a position the
\* master no longer has
ReportReceiverRows ==
    {ReceiverPosition(11, 1, "buy", 100, Some(110000), Some(120000)),
     ReceiverPosition(11, 1, "buy", 90, Some(110010), Some(119990)),
     ReceiverPosition(11, 1, "buy", 89, Some(110011), Some(120000)),
     ReceiverPosition(11, 1, "sell", 111, Some(110000), Some(119989)),
     ReceiverPosition(11, 1, "buy", 100, None, None),
     ReceiverPosition(12, 2, "sell", 100, None, None),
     ReceiverPosition(12, 2, "sell", 100, Some(110000), None),
     ReceiverPosition(12, 2, "buy", 100, None, Some(120000)),
     ReceiverPosition(13, 3, "buy", 100, None, None)}

\* the lists of rows, at most one row for a master position
ReportReceiverLists ==
    {<<>>} \cup {<<a>> : a \in ReportReceiverRows}
    \cup {p \in ReportReceiverRows \X ReportReceiverRows :
             p[1].master_position_id # p[2].master_position_id}

PositionSyncStatus(master_positions, receiver_positions, discrepancies) ==
    [master_positions |-> master_positions,
     receiver_positions |-> receiver_positions,
     discrepancies |-> discrepancies]

(***************************************************************************)
(* Lot calculator.  Lots and risk_value are in thousandths, the results of *)
(* round_lots therefore multiples of 10; prices are in points of the       *)
(* symbol, so point is 1 and tick_size is in points; money is in whole     *)
(* units.  A quotient is kept as numerator and denominator of the number   *)
(* of hundredths of a lot until round_lots rounds it.                      *)
(***************************************************************************)
\* the default of apply_min_lot_limit, 0.01 lot
MIN_LOT == 10
\* the default max_lot of a catalog symbol, 100 lots
MAX_LOT == 100000

AccountInfo(balance) == [balance |-> balance]

SymbolInfo(tick_value, tick_size, digits, symbol_type) ==
    [tick_value |-> tick_value, tick_size |-> tick_size, digits |-> digits,
     point |-> 1, symbol_type |-> symbol_type]

\* SymbolInfo::default()
DefaultSymbolInfo == SymbolInfo(10, 1, 5, "forex")

\* SymbolInfo::for_index and SymbolInfo::for_cfd
ForIndex(tick_value, digits) == SymbolInfo(tick_value, 1, digits, "index")
ForCfd(tick_value, digits) == SymbolInfo(tick_value, 1, digits, "cfd")

\* (lots * 100.0).round(): f64::round takes a half away from zero
RoundedHundredths(num, den) ==
    LET q == num \div den
        r == num % den
    IN  IF 2 * r >= den THEN q + 1 ELSE q

\* round_lots, of the num / den hundredths of a lot
RoundLots(num, den) == RoundedHundredths(num, den) * 10

\* round_lots(lots.max(0.01))
RoundLotsAtLeastMin(num, den) ==
    IF num < den THEN RoundLots(1, 1) ELSE RoundLots(num, den)

\* calculate_lots_from_risk, for a risk amount of risk_num / risk_den
CalculateLotsFromRisk(risk_num, risk_den, price, stop_loss, symbol_info) ==
    LET sl_distance == Abs(price - stop_loss)
        points_per_pip == IF symbol_info.digits \in {5, 3} THEN 10 ELSE 1
        sl_points == sl_distance \div symbol_info.point
        \* value_per_lot as vpl_num / vpl_den
        vpl_num == IF symbol_info.symbol_type \in {"index", "forex"}
                   THEN sl_points * symbol_info.tick_value
                   ELSE sl_distance * symbol_info.tick_value
        vpl_den == IF symbol_info.symbol_type = "index" THEN 1
                   ELSE IF symbol_info.symbol_type = "forex" THEN points_per_pip
                   ELSE symbol_info.tick_size
    IN  IF sl_distance <= 0 THEN MIN_LOT
        ELSE IF vpl_num <= 0 THEN MIN_LOT
        ELSE RoundLotsAtLeastMin(100 * risk_num * vpl_den, risk_den * vpl_num)

CalculateLots(risk_mode, risk_value, master_lots, price, sl, master_balance, receiver_account, symbol_info) ==
    LET info == UnwrapOr(symbol_info, DefaultSymbolInfo)
    IN  CASE risk_mode = "fixed_lot" -> RoundLots(risk_value, 10)
          [] risk_mode = "lot_multiplier" ->
                RoundLots(master_lots * risk_value, 10000)
          [] risk_mode = "balance_multiplier" ->
                IF master_balance # None /\ receiver_account # None
                THEN IF master_balance[1] > 0
                     THEN RoundLotsAtLeastMin(
                            master_lots * receiver_account[1].balance * risk_value,
                            10000 * master_balance[1])
                     ELSE RoundLots(master_lots, 10)
                ELSE RoundLots(master_lots, 10)
          [] risk_mode = "risk_percent" ->
                IF sl # None /\ receiver_account # None
                THEN CalculateLotsFromRisk(receiver_account[1].balance * risk_value,
                                           100000, price, sl[1], info)
                ELSE RoundLots(master_lots, 10)
          [] risk_mode = "risk_dollar" ->
                IF sl # None
                THEN CalculateLotsFromRisk(risk_value, 1000, price, sl[1], info)
                ELSE RoundLots(master_lots, 10)
          [] risk_mode = "intent" ->
                IF sl # None /\ receiver_account # None
                THEN CalculateLotsFromRisk(risk_value, 1000, price, sl[1], info)
                ELSE RoundLots(master_lots, 10)
          [] OTHER -> RoundLots(master_lots, 10)

RiskModes ==
    {"fixed_lot", "lot_multiplier", "balance_multiplier", "risk_percent",
     "risk_dollar", "intent", "mirror", "unknown"}
RiskValues == {100, 500, 1000}
MasterLots == {4, 10, 123, 500}
Prices == {110000}
StopLosses == {None, Some(110000), Some(109500), Some(109999)}
MasterBalances == {None, Some(0), Some(500)}
ReceiverAccounts == {None, Some(AccountInfo(1000))}
SymbolInfos == {None, Some(ForIndex(1, 1)), Some(ForCfd(1, 2))}

NoLotCall == [risk_mode |-> "none", risk_value |-> 0, master_lots |-> 0,
              sl |-> None, lots |-> 0]

\* the text of the key: format!("{}:{}:{}:{}:{}", event_type, ticket, deal_id,
\* symbol, timestamp), the integers in decimal
FormatIdempotencyKey(event_type, ticket, deal_id, symbol, timestamp) ==
    event_type \o ":" \o ToString(ticket) \o ":" \o ToString(deal_id)
        \o ":" \o symbol \o ":" \o timestamp

\* the key process_event_file computes for an event: an absent deal_id is
\* replaced by 0
EventKeyText(event) ==
    FormatIdempotencyKey(event.event_type, event.ticket,
                         UnwrapOr(event.deal_id, 0), event.symbol,
                         event.timestamp)

\* the events of the master whose keys are compared: the fields are what the
\* JSON of an event file can hold
KeyEventTypes == {"entry", "exit"}
KeyTickets == {1, 12}
KeyDealIds == {None, Some(0), Some(2)}
KeySymbols == {"EURUSD", "EURUSD:10"}
KeyTimestamps == {"10:30", "30"}

NoKeyCall == [event |-> None, key |-> "", earlier |-> None, earlier_key |-> ""]

InitCalc ==
    /\ sync_status = PositionSyncStatus(<<>>, <<>>, <<>>)
    /\ lot_call = NoLotCall
    /\ key_call = NoKeyCall

\* generate_sync_report for one receiver, with the positions the two
\* terminals hold
GenerateSyncReport(receiver_id, master_positions, receiver_positions) ==
    /\ sync_status' =
         PositionSyncStatus(master_positions, receiver_positions,
                            FindDiscrepancies(master_positions,
                                              receiver_positions, receiver_id))
    /\ UNCHANGED <<lot_call, key_call>>
    /\ UNCHANGED notCalcVars

NextReport ==
    \E r \in ReconReceivers, m \in ReportMasterLists, rs \in ReportReceiverLists :
        GenerateSyncReport(r, m, rs)

\* process_event computes the lots of a receiver's trade
LotsCalculated(risk_mode, risk_value, master_lots, price, sl, master_balance, receiver_account, symbol_info) ==
    /\ lot_call' =
         [risk_mode |-> risk_mode, risk_value |-> risk_value,
          master_lots |-> master_lots, sl |-> sl,
          lots |-> CalculateLots(risk_mode, risk_value, master_lots, price, sl,
                                 master_balance, receiver_account, symbol_info)]
    /\ UNCHANGED <<sync_status, key_call>>
    /\ UNCHANGED notCalcVars

NextLots ==
    \E risk_mode \in RiskModes, risk_value \in RiskValues,
       master_lots \in MasterLots, price \in Prices, sl \in StopLosses,
       master_balance \in MasterBalances,
       receiver_account \in ReceiverAccounts, symbol_info \in SymbolInfos :
        LotsCalculated(risk_mode, risk_value, master_lots, price, sl,
                       master_balance, receiver_account, symbol_info)

\* process_event_file computes the idempotency key of the event it has parsed
KeyGenerated(event) ==
    /\ key_call' = [event |-> Some(event), key |-> EventKeyText(event),
                    earlier |-> key_call.event, earlier_key |-> key_call.key]
    /\ UNCHANGED <<sync_status, lot_call>>
    /\ UNCHANGED notCalcVars

NextKeys ==
    \E event_type \in KeyEventTypes, ticket \in KeyTickets,
       deal_id \in KeyDealIds, symbol \in KeySymbols,
       timestamp \in KeyTimestamps :
        KeyGenerated(TradeEvent(event_type, ticket, deal_id, symbol, "buy",
                                timestamp))

(***************************************************************************)
(* watch_folder and the files of the pending folder, with a master that    *)
(* writes a file in two pieces: the file exists, with a part of its JSON,  *)
(* before it is complete.                                                  *)
(***************************************************************************)
IntakeFiles == 1..MaxIntakeFiles

AbsentFile == [state |-> "absent", size |-> 0]

NoIntakeStep == [op |-> "none", path |-> 0, checked |-> FALSE, writing |-> FALSE]

InitFine ==
    intake = [files |-> [f \in IntakeFiles |-> AbsentFile],
              watching |-> FALSE,
              events |-> <<>>,
              sweep |-> <<>>,
              pc |-> "start",
              path |-> 0,
              initial_size |-> 0,
              last |-> NoIntakeStep]

\* the master creates an event file and writes the first piece of it; once
\* the watcher is registered the creation reaches its channel
IntakeMasterCreates(f) ==
    /\ intake.files[f].state = "absent"
    /\ intake' = [intake EXCEPT
           !.files[f] = [state |-> "writing", size |-> 1],
           !.events = IF intake.watching THEN Append(@, f) ELSE @,
           !.last = NoIntakeStep]
    /\ UNCHANGED notIntakeVars

\* the master writes the rest of the file and closes it
IntakeMasterCompletes(f) ==
    /\ intake.files[f].state = "writing"
    /\ intake' = [intake EXCEPT
           !.files[f] = [state |-> "complete", size |-> 2],
           !.last = NoIntakeStep]
    /\ UNCHANGED notIntakeVars

\* process_event_file as far as the file goes: read and parse; a file that
\* parses is handled and removed, one that does not is removed as malformed
IntakeProcessed(in, f, checked) ==
    [in EXCEPT
        !.files[f] = IF @.state \in {"writing", "complete"}
                     THEN [state |-> "deleted", size |-> 0] ELSE @,
        !.last = [op |-> "process_event_file", path |-> f, checked |-> checked,
                  writing |-> in.files[f].state = "writing"]]

\* watch_folder registers the watcher and lists the folder for
\* process_existing_files
IntakeWatchStarts(order) ==
    /\ intake.pc = "start"
    /\ order \in Orders({f \in IntakeFiles :
                            intake.files[f].state \in {"writing", "complete"}})
    /\ intake' = [intake EXCEPT !.watching = TRUE, !.sweep = order,
                                !.pc = "sweep", !.last = NoIntakeStep]
    /\ UNCHANGED notIntakeVars

\* process_existing_files: the next .json entry goes to process_event_file
IntakeSweepsFile ==
    /\ intake.pc = "sweep"
    /\ intake.sweep # <<>>
    /\ intake' = [IntakeProcessed(intake, Head(intake.sweep), FALSE)
                    EXCEPT !.sweep = Tail(intake.sweep)]
    /\ UNCHANGED notIntakeVars

\* process_existing_files returns; the loop of watch_folder begins
IntakeSweepDone ==
    /\ intake.pc = "sweep"
    /\ intake.sweep = <<>>
    /\ intake' = [intake EXCEPT !.pc = "recv", !.last = NoIntakeStep]
    /\ UNCHANGED notIntakeVars

\* a creation event is received; after FILE_STABILITY_DELAY_MS is_file_stable
\* reads the size of the file for the first time
IntakeFirstSize ==
    /\ intake.pc = "recv"
    /\ intake.events # <<>>
    /\ LET f == Head(intake.events)
           exists == intake.files[f].state \in {"writing", "complete"}
       IN  intake' = [intake EXCEPT
               !.events = Tail(@),
               !.pc = IF exists THEN "stable" ELSE "recv",
               !.path = IF exists THEN f ELSE 0,
               !.initial_size = IF exists THEN intake.files[f].size ELSE 0,
               !.last = IF exists THEN NoIntakeStep
                        ELSE [NoIntakeStep EXCEPT !.op = "skipped", !.path = f]]
    /\ UNCHANGED notIntakeVars

\* is_file_stable reads the size again, 50 ms later; a file whose size has
\* not changed goes to process_event_file
IntakeSecondSize ==
    /\ intake.pc = "stable"
    /\ LET f == intake.path
           stable == /\ intake.files[f].state \in {"writing", "complete"}
                     /\ intake.files[f].size = intake.initial_size
           back == [intake EXCEPT !.pc = "recv", !.path = 0, !.initial_size = 0]
       IN  intake' = IF stable THEN IntakeProcessed(back, f, TRUE)
                     ELSE [back EXCEPT !.last = [NoIntakeStep EXCEPT
                                          !.op = "skipped", !.path = f]]
    /\ UNCHANGED notIntakeVars

(***************************************************************************)
(* One call of execute_trade_async, attempt by attempt.  The command is    *)
(* built once, before the loop, and with it its timestamp: every attempt   *)
(* writes cmd_<timestamp>.json and polls resp_<timestamp>.json, the same   *)
(* two paths.  cmd_file and resp_file are 0 for an absent file and         *)
(* otherwise carry the number of the attempt whose write the file comes    *)
(* from, which the files themselves do not show.  The receiver's EA takes  *)
(* a command file out of the folder, executes it once, and writes the      *)
(* response later.                                                         *)
(***************************************************************************)
RpcIdle ==
    [pc |-> "idle", attempt |-> 0, cmd_file |-> 0, resp_file |-> None,
     ea |-> None, executions |-> 0, accepted |-> <<>>, result |-> None]

InitRpc == rpc = RpcIdle

\* what the EA answers: success, or an error that is_retryable_error takes
\* for retryable, or one that it does not
EaOutcomes == {"success", "requote", "invalid volume"}

is_retryable_error(error) == error = "requote"

\* the end of a round of `for attempt in 0..retry_config.max_attempts` after
\* a retryable failure: the backoff sleep and the next attempt, or the
\* result after the last attempt
AfterRetryable(r, last_error) ==
    IF r.attempt + 1 < RETRY_MAX_ATTEMPTS
    THEN [r EXCEPT !.pc = "write", !.attempt = @ + 1]
    ELSE [r EXCEPT !.pc = "done", !.result = Some(last_error)]

\* execute_trade_async is entered: the command gets its timestamp, and the
\* files of this timestamp do not exist yet
ExecuteTradeEntered ==
    /\ rpc.pc \in {"idle", "done"}
    /\ rpc' = [RpcIdle EXCEPT !.pc = "write"]
    /\ UNCHANGED notRpcVars

\* execute_single_attempt: tokio::fs::write of the command file
AttemptWrites(write_ok) ==
    /\ rpc.pc = "write"
    /\ rpc' = IF write_ok
              THEN [rpc EXCEPT !.pc = "wait", !.cmd_file = rpc.attempt + 1]
              ELSE AfterRetryable(rpc, "file_write_error")
    /\ UNCHANGED notRpcVars

\* wait_for_response_async: 15 s have passed, the command file is removed
WaitTimesOut ==
    /\ rpc.pc = "wait"
    /\ rpc' = AfterRetryable([rpc EXCEPT !.cmd_file = 0], "timeout")
    /\ UNCHANGED notRpcVars

\* wait_for_response_async: the response file exists; it is read, removed
\* and returned, or the read fails
WaitReads(read_ok) ==
    /\ rpc.pc = "wait"
    /\ rpc.resp_file # None
    /\ LET response == rpc.resp_file[1]
           taken == [rpc EXCEPT
                       !.resp_file = None,
                       !.accepted = Append(@, [attempt |-> rpc.attempt + 1,
                                               reply_to |-> response.reply_to])]
       IN  rpc' = IF ~read_ok THEN AfterRetryable(rpc, "file_read_error")
                  ELSE IF response.outcome = "success"
                          \/ ~is_retryable_error(response.outcome)
                  THEN [taken EXCEPT !.pc = "done",
                                     !.result = Some(response.outcome)]
                  ELSE AfterRetryable(taken, response.outcome)
    /\ UNCHANGED notRpcVars

\* the receiver's EA takes the command file out of the folder and executes
\* the command, with success or not
EaConsumes(outcome) ==
    /\ rpc.cmd_file # 0
    /\ rpc.ea = None
    /\ rpc' = [rpc EXCEPT
                 !.cmd_file = 0,
                 !.ea = Some([reply_to |-> rpc.cmd_file, outcome |-> outcome]),
                 !.executions = IF outcome = "success" THEN @ + 1 ELSE @]
    /\ UNCHANGED notRpcVars

\* the EA writes the response to the command it has executed
EaResponds ==
    /\ rpc.ea # None
    /\ rpc' = [rpc EXCEPT !.resp_file = rpc.ea, !.ea = None]
    /\ UNCHANGED notRpcVars

NextRpc ==
    \/ ExecuteTradeEntered
    \/ \E write_ok \in BOOLEAN : AttemptWrites(write_ok)
    \/ WaitTimesOut
    \/ \E read_ok \in BOOLEAN : WaitReads(read_ok)
    \/ \E outcome \in EaOutcomes : EaConsumes(outcome)
    \/ EaResponds

(***************************************************************************)
(* The mutexes of the agent and the threads that take them.  A function of *)
(* the source is the sequence of its steps that matter here: taking a      *)
(* mutex, dropping its guard, file I/O, a sleep, polling for the response  *)
(* of the receiver's EA, and the exit of the process.  parking_lot's Mutex *)
(* is not reentrant: a thread that locks a mutex it holds waits for        *)
(* itself.                                                                 *)
(***************************************************************************)
Mutexes == {"copier", "safety", "reset_hour", "keys", "terminals", "recon"}

Threads == {"watch", "recon_loop", "handler", "quit"}

LockStep(m) == [kind |-> "lock", m |-> m]
UnlockStep(m) == [kind |-> "unlock", m |-> m]
FileIo == [kind |-> "io", m |-> "none"]
Sleeps == [kind |-> "sleep", m |-> "none"]
PollsResponse == [kind |-> "rpc", m |-> "none"]
ProcessExit == [kind |-> "exit", m |-> "none"]

\* `let guard = M.lock(); body` up to the end of the guard's scope
Guarded(m, body) == <<LockStep(m)>> \o body \o <<UnlockStep(m)>>

\* `*DAILY_RESET_HOUR.lock()`: the guard is a temporary
get_daily_reset_hour == Guarded("reset_hour", <<>>)

\* create_dir_all, the reset hour for the persisted record, then the write
\* of the temporary file with its rename
save_safety_state == <<FileIo>> \o get_daily_reset_hour \o <<FileIo>>

save_all_safety_states == Guarded("safety", save_safety_state)

\* the ledger functions that change a state: lock, change, persist_state
persist_under_lock == Guarded("safety", save_safety_state)

check_daily_reset == get_daily_reset_hour \o persist_under_lock

get_receiver_state == Guarded("safety", <<>>)

\* check_daily_reset, get_receiver_state and, on a breach, pause_receiver
check_trade_safety_steps(breached) ==
    check_daily_reset \o get_receiver_state
        \o (IF breached THEN persist_under_lock ELSE <<>>)

is_event_processed_steps == Guarded("keys", <<>>)

\* save_processed_keys: create_dir_all, write of the temporary file, rename
save_processed_keys == <<FileIo>>

mark_event_processed_steps == Guarded("keys", save_processed_keys)

get_cached_terminals == Guarded("terminals", <<FileIo>>)

record_blocked_execution == Guarded("copier", <<>>)

\* execute_trade: the command file, the polling for the response and the
\* backoff sleep, then the two updates of the runtime state
executed_and_recorded ==
    <<FileIo, PollsResponse, Sleeps>> \o Guarded("copier", <<>>)
        \o Guarded("copier", <<>>)

\* a round of process_event in which the ledger's guard would still be
\* alive when the execution is recorded
process_event_under_ledger(blocked) ==
    get_cached_terminals
        \o Guarded("safety", IF blocked THEN record_blocked_execution
                             ELSE executed_and_recorded)

\* a round of process_event's loop over the receivers
process_event_steps(blocked) ==
    get_cached_terminals \o check_trade_safety_steps(blocked)
        \o (IF blocked THEN record_blocked_execution
            ELSE executed_and_recorded)

\* process_event_file after the parse, with one receiver
process_event_file_steps(blocked) ==
    is_event_processed_steps \o Guarded("copier", <<>>)
        \o mark_event_processed_steps \o process_event_steps(blocked)
        \o <<FileIo>>

\* find_master_queue_path with a configured master terminal
find_master_queue_path == Guarded("copier", <<FileIo>>)

\* one round of the reconciliation loop with one discrepancy handled
reconciliation_round ==
    Guarded("recon", <<>>) \o <<FileIo>> \o Guarded("recon", <<>>)
        \o Guarded("recon", <<>>) \o Guarded("recon", <<>>) \o <<Sleeps>>

set_api_key == Guarded("copier", <<FileIo>>)

\* get_reconciliation_status, get_processed_keys_count, then the files
export_debug_bundle == Guarded("recon", <<>>) \o Guarded("keys", <<>>) \o <<FileIo>>

\* the "quit" item of the tray menu
quit_handler ==
    <<Sleeps>> \o Guarded("copier", save_all_safety_states) \o <<ProcessExit>>

\* what each thread may run, by name
Programs(t) ==
    IF t = "watch"
    THEN [find_master_queue_path |-> find_master_queue_path,
          process_event_file_blocked |-> process_event_file_steps(TRUE),
          process_event_file |-> process_event_file_steps(FALSE)]
    ELSE IF t = "recon_loop"
    THEN [reconciliation_round |-> reconciliation_round]
    ELSE IF t = "handler"
    THEN [set_api_key |-> set_api_key,
          export_debug_bundle |-> export_debug_bundle,
          window_close |-> save_all_safety_states]
    ELSE [quit |-> quit_handler]

IdleThread == [op |-> "idle", steps |-> <<>>]

InitLocks ==
    /\ mutex_owner = [m \in Mutexes |-> "none"]
    /\ thread = [t \in Threads |-> IdleThread]

HeldBy(t) == {m \in Mutexes : mutex_owner[m] = t}

NextStep(t) == thread[t].steps[1]

AtStep(t, kinds) == thread[t].steps # <<>> /\ NextStep(t).kind \in kinds

\* the thread is at a lock() whose mutex is held
Blocked(t) == AtStep(t, {"lock"}) /\ mutex_owner[NextStep(t).m] # "none"

\* the thread has made its step; after the last one its function returns
Advanced(t) ==
    IF Len(thread[t].steps) = 1 THEN [thread EXCEPT ![t] = IdleThread]
    ELSE [thread EXCEPT ![t].steps = Tail(@)]

ThreadBegins(t, op) ==
    /\ thread[t].op = "idle"
    /\ thread' = [thread EXCEPT ![t] = [op |-> op, steps |-> Programs(t)[op]]]
    /\ UNCHANGED mutex_owner
    /\ UNCHANGED notLockVars

ThreadLocks(t) ==
    /\ AtStep(t, {"lock"})
    /\ mutex_owner[NextStep(t).m] = "none"
    /\ mutex_owner' = [mutex_owner EXCEPT ![NextStep(t).m] = t]
    /\ thread' = Advanced(t)
    /\ UNCHANGED notLockVars

ThreadUnlocks(t) ==
    /\ AtStep(t, {"unlock"})
    /\ mutex_owner' = [mutex_owner EXCEPT ![NextStep(t).m] = "none"]
    /\ thread' = Advanced(t)
    /\ UNCHANGED notLockVars

\* file I/O, a sleep, or the polling for a response comes to its end
ThreadWorks(t) ==
    /\ AtStep(t, {"io", "sleep", "rpc"})
    /\ thread' = Advanced(t)
    /\ UNCHANGED mutex_owner
    /\ UNCHANGED notLockVars

\* std::process::exit(0): every thread ends
ProcessExits(t) ==
    /\ AtStep(t, {"exit"})
    /\ thread' = [u \in Threads |-> [op |-> "exited", steps |-> <<>>]]
    /\ mutex_owner' = [m \in Mutexes |-> "none"]
    /\ UNCHANGED notLockVars

NextLocks ==
    \/ \E t \in Threads : \E op \in DOMAIN Programs(t) : ThreadBegins(t, op)
    \/ \E t \in Threads : ThreadLocks(t)
    \/ \E t \in Threads : ThreadUnlocks(t)
    \/ \E t \in Threads : ThreadWorks(t)
    \/ \E t \in Threads : ProcessExits(t)

\* the OS runs every thread that can run, and parking_lot hands a mutex
\* that is released again and again to each waiter in the end
LockFairness ==
    \A t \in Threads :
        /\ SF_vars(ThreadLocks(t))
        /\ WF_vars(ThreadUnlocks(t))
        /\ WF_vars(ThreadWorks(t))
        /\ WF_vars(ProcessExits(t))

NextIntake ==
    \/ \E f \in IntakeFiles : IntakeMasterCreates(f)
    \/ \E f \in IntakeFiles : IntakeMasterCompletes(f)
    \/ \E order \in UNION {Orders(S) : S \in SUBSET IntakeFiles} :
         IntakeWatchStarts(order)
    \/ IntakeSweepsFile
    \/ IntakeSweepDone
    \/ IntakeFirstSize
    \/ IntakeSecondSize

(***************************************************************************)
(* The specifications.                                                     *)
(***************************************************************************)
Init ==
    /\ InitQueue /\ InitSafety /\ InitRecon /\ InitIngest /\ InitStore
    /\ InitFan /\ InitWatch /\ InitCalc /\ InitFine /\ InitRpc
    /\ InitLocks

SpecQueue == Init /\ [][NextQueue]_vars

SpecQueueCrashFree == Init /\ [][NextQueueCrashFree]_vars

SpecHistory == Init /\ [][NextHistory]_vars

SpecQueueOps == Init /\ [][NextQueueOps]_vars

SpecWorker == Init /\ [][NextWorker]_vars /\ WorkerFairness

SpecSafety == Init /\ [][NextSafety]_vars

SpecRules == Init /\ [][NextRules]_vars

SpecRecon == Init /\ [][NextRecon]_vars

SpecReport == Init /\ [][NextReport]_vars

SpecLots == Init /\ [][NextLots]_vars

SpecKeys == Init /\ [][NextKeys]_vars

SpecIntake == Init /\ [][NextIntake]_vars

SpecRpc == Init /\ [][NextRpc]_vars

SpecLocks == Init /\ [][NextLocks]_vars

SpecLocksFair == Init /\ [][NextLocks]_vars /\ LockFairness

SpecHandle == Init /\ [][NextHandle]_vars

SpecIngest == Init /\ [][NextIngest]_vars

SpecIngestCrashFree == Init /\ [][NextIngestCrashFree]_vars

\* The watch thread is an OS thread of its own (main.rs, thread::spawn of
\* start_watching): whenever it has a step to take it takes it.  The master
\* and the user are under no obligation.
WatchThreadFairness ==
    /\ WF_vars(ProcessEventFile)
    /\ WF_vars(SaveWriteTemp)
    /\ WF_vars(SaveRename)
    /\ WF_vars(ProcessEvent)
    /\ WF_vars(\E receiver_account \in AccountInfos, trade_ok \in BOOLEAN :
                  FanOutToReceiver(receiver_account, trade_ok))
    /\ WF_vars(RemoveProcessedFile)

SpecIngestFair == Init /\ [][NextIngestCrashFree]_vars /\ WatchThreadFairness

SpecStore == Init /\ [][NextStore]_vars

SpecFanOut == Init /\ [][NextFanOut]_vars

SpecLoops == Init /\ [][NextLoops]_vars

\* The file-watch thread and every reconciliation loop thread are OS threads
\* (thread::spawn): a thread that has a step to take takes it.  Nobody is
\* obliged to call request_shutdown, start or stop.
LoopThreadsFairness ==
    /\ WF_vars(\E path_found \in BOOLEAN : WatchOuter(path_found))
    /\ WF_vars(WatchWait(TRUE))
    /\ WF_vars(WatchInner)
    /\ WF_vars(\E timed_out \in BOOLEAN : WatchRecv(timed_out))
    /\ \A t \in LoopThreads :
         WF_vars(LoopTopIdle(t)) /\ WF_vars(LoopWake(t))

SpecLoopsFair == Init /\ [][NextLoops]_vars /\ LoopThreadsFairness

(***************************************************************************)
(* Claims about the execution queue.                                       *)
(***************************************************************************)
Held == Range(pending) \cup in_progress

PendingWith(id) == {e \in Range(pending) : e.id = id}

ResultsOf(id) == {i \in 1..Len(completed) : completed[i].id = id}

\* C4: every QueuedExecution held in pending or in_progress has
\* attempts <= max_attempts, in every state reachable by enqueue, dequeue,
\* complete, fail and crash-then-reload.
C4_AttemptsWithinMax == \A e \in Held : e.attempts <= e.max_attempts

\* C5: right after a reload, the ids in pending are the ids that were in pending
\* or in_progress in the last persisted queue state, in_progress is empty, and
\* every entry the file held as in_progress is now pending with
\* next_retry_at = now and its attempts unchanged.
C5_ReloadKeepsQueue ==
    q_last.op = "load" =>
        /\ Ids(Range(pending)) = q_persisted
        /\ in_progress = {}
        /\ queue_file.state = "ok" =>
             \A e \in queue_file.in_progress :
                \E p \in PendingWith(e.id) :
                    /\ p.status = "pending"
                    /\ p.next_retry_at = now
                    /\ p.attempts = e.attempts

\* what the state right after the n-th fail() of execution id must look like
\* when the execution is put back with the given delay
RetriedWith(id, n, delay) ==
    \E e \in PendingWith(id) :
        /\ e.attempts = n
        /\ e.status = "pending"
        /\ e.next_retry_at = now + delay

GivenUp(id) ==
    /\ PendingWith(id) = {}
    /\ q_last.status = "max_retries_exceeded"
    /\ Cardinality(ResultsOf(id)) = 1
    /\ completed[Len(completed)] = [id |-> id, success |-> FALSE, attempts |-> 3]

JustFailed(id, n) == q_last.op = "fail" /\ q_last.id = id /\ q_fails[id] = n

C11_ReceiverSerialized ==
    \A e \in in_progress : \A f \in Held :
        f.receiver_id = e.receiver_id => f.id >= e.id

(***************************************************************************)
(* Claims about the safety ledger.                                         *)
(***************************************************************************)
IsPaused(r) == r \in DOMAIN ledger /\ ledger[r].is_safety_paused

\* C7: while the ledger holds is_safety_paused for a receiver that was paused
\* in the current trading day and not unpaused since, check_trade_safety
\* returns Blocked; restarts that reload safety_state.json are among the steps.
C7_PauseSticky ==
    [][\A r \in Receivers, config \in SafetyConfigs, b \in Balances :
          (/\ CheckTradeSafety(r, config, b)
           /\ IsPaused(r)
           /\ pause_day[r] = Some(Today))
          => s_last'.verdict = "blocked"]_vars

\* the loss limit of a configuration, reached by the daily_pnl the ledger holds
LossLimitReached(r, config, b) ==
    /\ r \in DOMAIN ledger
    /\ config.max_daily_loss_percent # None
    /\ ledger[r].daily_pnl * 100
         <= -(EffectiveBalance(ledger[r], b) * config.max_daily_loss_percent[1])

\* C8: when record_trade_result has just brought a receiver's daily_pnl to or
\* below -(balance * max_daily_loss_percent / 100), the next check_trade_safety
\* in the same trading day returns Blocked and leaves the receiver paused.
C8_LossBlocksNextCheck ==
    [][\A r \in Receivers, config \in SafetyConfigs, b \in Balances :
          (/\ CheckTradeSafety(r, config, b)
           /\ s_last.op = "record"
           /\ s_last.receiver = r
           /\ LossLimitReached(r, config, b))
          => (s_last'.verdict = "blocked" /\ ledger'[r].is_safety_paused)]_vars

(***************************************************************************)
(* Claims about the reconciliation.                                        *)
(***************************************************************************)
FlagAllows(command, config) ==
    /\ command.command_type = "open" => config.auto_open_missing
    /\ command.command_type = "close" => config.auto_close_orphaned

\* C9: whatever update_reconciliation_config calls come between the steps of
\* a cycle, every open command the loop writes is written while
\* auto_open_missing is true in the configuration, and every close command
\* while auto_close_orphaned is true.
C9_CommandsFollowFlags ==
    [][\A r \in ReconReceivers : \A f \in DOMAIN command_files'[r] :
          (f \notin DOMAIN command_files[r] \/ command_files'[r][f] # command_files[r][f])
          => FlagAllows(command_files'[r][f], recon_state.config)]_vars

\* C10: handling a direction_mismatch or a volume_mismatch, under any
\* configuration, leaves the receiver's command files and the action log as
\* they were.
C10_MismatchNeverActs ==
    [][(/\ recon_last'.op = "handle"
        /\ recon_last'.type \in {"direction_mismatch", "volume_mismatch"})
       => /\ command_files' = command_files
          /\ recon_state'.actions_taken = recon_state.actions_taken]_vars

\* C10 witness: a volume_mismatch has been handled with auto_adjust_volume set,
\* after a command had been written and an action logged.
C10_Witness ==
    /\ recon_last.op = "handle"
    /\ recon_last.type = "volume_mismatch"
    /\ recon_last.auto_adjust_volume
    /\ recon_state.actions_taken # <<>>
    /\ \E r \in ReconReceivers : DOMAIN command_files[r] # {}

(***************************************************************************)
(* Claims about the ingestor and the idempotency store.                    *)
(***************************************************************************)
\* the key of the event the watch thread is working on
WatcherKey == EventKey(watcher.event[1])

ConfiguredReceivers ==
    IF copier.config = None THEN {}
    ELSE {rc.account_number : rc \in Range(copier.config[1].receivers)}

\* the watch thread takes a file whose key the store holds
DuplicateSeen ==
    /\ watcher.pc = "idle"
    /\ to_process # <<>>
    /\ Triage(Head(to_process)) = "duplicate"
    /\ to_process' = Tail(to_process)

MarkFanOutDeleteOrder ==
    /\ watcher.pc \in {"process_event", "receiver"} =>
         /\ InStore(WatcherKey)
         /\ FileAt(watcher.path) # {}
    /\ watcher.pc \in {"write_temp", "rename", "process_event"} =>
         WatcherKey \notin deleted_after_fanout \/ WatcherKey \in evicted
    /\ watcher.pc = "receiver" => fanned_out[WatcherKey] >= 1
    /\ \A k \in deleted_after_fanout : fanned_out[k] >= 1

DuplicateInsert ==
    /\ store_log.last.op = "insert"
    /\ store_log.last.key[1] \in store_log.last.before.keys_set

\* the last call was an insert of a key the store did not hold
NewInsert ==
    /\ store_log.last.op = "insert"
    /\ store_log.last.key[1] \notin store_log.last.before.keys_set

C13_DuplicateInsertIsNoOp ==
    DuplicateInsert => store = store_log.last.before

\* C14: the store never holds more than its capacity; an insert of a new
\* key into a full store evicts exactly the earliest-inserted key still
\* present; lookups and duplicate inserts leave the key that is evicted
\* next unchanged.
C14_CapAndFifoEviction ==
    /\ Cardinality(store.keys_set) <= MaxStoreCap
    /\ Len(store.keys_order) <= MaxStoreCap
    /\ (NewInsert
          /\ Cardinality(store_log.last.before.keys_set) >= MaxStoreCap)
         => store_log.last.before.keys_set \ store.keys_set
              = {Head(store_log.last.arrival_before)}
    /\ (store_log.last.op = "contains" \/ DuplicateInsert)
         => Oldest(store.keys_order) = Oldest(store_log.last.before.keys_order)

C15_OversizedFileLoaded ==
    /\ store_log.last.op = "reload"
    /\ store_log.saved = None
    /\ Len(store_file.lines) > Len(NonEmptyLines(store_file.lines))

(***************************************************************************)
(* Claims about process_event and execute_trade.                           *)
(***************************************************************************)
\* the executions the current call of process_event has added, newest first
AddedExecutions ==
    SubSeq(copier.recent_executions, 1,
           IF fan_log.added <= Len(copier.recent_executions)
           THEN fan_log.added ELSE Len(copier.recent_executions))

\* the positions in AddedExecutions of the executions of a receiver
ExecutionsOf(r) ==
    {n \in 1..Len(AddedExecutions) : AddedExecutions[n].receiver_account = r}

\* the thread is inside execute_trade for the receiver
Executing(r) ==
    /\ fan.pc \in {"write", "wait"}
    /\ FanReceiver.account_number = r

\* C16: for a receiver whose verdict for the event is Blocked, process_event
\* writes no command file, adds exactly one execution, with status blocked
\* and the reason as its error message, and never enters execute_trade (no
\* attempt, no retry); a receiver whose verdict is Warning or Allowed goes on
\* to execute_trade and never gets a blocked execution.
C16_BlockedWritesNothing ==
    \A r \in Receivers :
        /\ fan_log.verdicts[r] = "blocked" =>
             /\ fan_log.written[r] = 0
             /\ cmd_folder[r] = 0
             /\ ~Executing(r)
             /\ Cardinality(ExecutionsOf(r)) = 1
             /\ \A n \in ExecutionsOf(r) :
                  /\ AddedExecutions[n].status = "blocked"
                  /\ AddedExecutions[n].error_message = Some(fan_log.reasons[r])
        /\ fan_log.verdicts[r] \in {"warning", "allowed"} =>
             /\ Executing(r) \/ Cardinality(ExecutionsOf(r)) = 1
             /\ \A n \in ExecutionsOf(r) :
                  AddedExecutions[n].status \in {"success", "error"}
             /\ fan.pc = "done" =>
                  \/ fan_log.written[r] >= 1
                  \/ \E n \in ExecutionsOf(r) :
                       AddedExecutions[n].error_message = Some("file_write_error")

\* C16 happens: process_event has returned, one receiver was blocked and the
\* other, with a warning, had its command written and answered.
C16_Witness ==
    /\ fan.pc = "done"
    /\ \E r1, r2 \in Receivers :
        /\ fan_log.verdicts[r1] = "blocked"
        /\ fan_log.verdicts[r2] = "warning"
        /\ fan_log.written[r2] >= 1
        /\ \E n \in ExecutionsOf(r2) : AddedExecutions[n].status = "success"

C18_NoWaitOnOtherReceiver ==
    \A r \in Receivers : fan_log.delayed_by[r] = {}

(***************************************************************************)
(* Claims about files that arrive while the copier is not running.         *)
(***************************************************************************)
\* the watch thread is about to handle a well-formed file whose key is not
\* in the store, and the copier is not running or has no configuration
SkippableFileNext ==
    /\ watcher.pc = "idle"
    /\ to_process # <<>>
    /\ \E f \in FileAt(Head(to_process)) :
        /\ f.content # None
        /\ ~Contains(processed_keys, EventKey(f.content[1]))
    /\ ~copier.is_running \/ copier.config = None

\* C19: when the copier is not running or has no configuration, the step of
\* process_event_file on a well-formed file whose key is not in the store
\* leaves the file in the pending folder, leaves the store as it is, in
\* memory and on disk, and starts no fan-out.
C19_SkipLeavesEverything ==
    [][(SkippableFileNext /\ to_process' = Tail(to_process)
            /\ i_crashes' = i_crashes)
         => /\ pending_dir' = pending_dir
            /\ processed_keys' = processed_keys
            /\ processed_file' = processed_file
            /\ processed_tmp' = processed_tmp
            /\ fanned_out' = fanned_out
            /\ executed' = executed
            /\ watcher' = watcher
            /\ copier' = copier]_vars

\* C19 happens: a file was skipped because the copier was not running; it is
\* in the pending folder, its key is in no store and it was not fanned out.
C19_Witness ==
    /\ i_last.op = "not_running"
    /\ \E f \in FileAt(i_last.path) :
        /\ f.content # None
        /\ ~Contains(processed_keys, EventKey(f.content[1]))
        /\ EventKey(f.content[1]) \notin Range(processed_file.lines)
        /\ fanned_out[EventKey(f.content[1])] = 0

\* the file at the path holds the event, the watch thread has skipped it
\* (it is neither queued for the thread nor in its hands), and the copier is
\* running with a configuration
SkippedAndStarted(path, event) ==
    /\ EventFile(path, Some(event)) \in pending_dir
    /\ path \notin Range(to_process)
    /\ watcher.pc = "idle"
    /\ copier.is_running
    /\ copier.config # None

\* C20: a file that was skipped because the copier was not running is
\* fanned out eventually once the copier runs with a configuration, unless
\* the copier is stopped again; the agent is not restarted.
C20_SkippedFileEventuallyFannedOut ==
    \A path \in 1..MaxDrops : \A event \in Events :
        SkippedAndStarted(path, event)
            ~> (fanned_out[EventKey(event)] >= 1 \/ ~copier.is_running)

(***************************************************************************)
(* Claims about the long-running threads.                                  *)
(***************************************************************************)
\* no reconciliation loop thread is alive and the file-watch thread has
\* returned from start_watching
AllLoopsEnded ==
    /\ watch_loop.pc = "stopped"
    /\ \A t \in LoopThreads : loops[t].pc = "dead"

\* C21: once request_shutdown has set the shutdown flag, the file-watch
\* thread sees at most one more receive timeout, and the file-watch thread
\* and every reconciliation loop thread end, without a call of
\* stop_reconciliation_loop being needed.
C21_ShutdownEndsBothLoops ==
    /\ [](watch_loop.timeouts_after_shutdown <= 1)
    /\ watch_shutdown ~> AllLoopsEnded

\* the reconciliation loop threads that are alive
LiveLoops == {t \in LoopThreads : loops[t].pc # "dead"}

\* C30: at most one reconciliation loop thread is alive at any time.
C30_AtMostOneLoop == Cardinality(LiveLoops) <= 1

\* the state check_trade_safety reads: the receiver's, after check_daily_reset
StateChecked(r) == EntryOrDefault(AfterDailyReset(ledger, r, Today), r)

\* the rules as the claim lists them: the drawdown rule applies whenever
\* high_water_mark > 0
StatedRules(st, config, starting_balance) ==
    LET balance == EffectiveBalance(st, starting_balance)
        pct == config.max_daily_loss_percent
        amount == config.max_daily_loss_amount
        dd == config.max_drawdown_percent
        hwm == st.high_water_mark
        drop == hwm - st.current_equity
        max_consecutive == IF config.max_consecutive_losses # None
                           THEN config.max_consecutive_losses[1] ELSE 3
    IN  CASE st.is_safety_paused -> Verdict("blocked", "already_paused", FALSE)
          [] pct # None /\ st.daily_pnl * 100 <= -(balance * pct[1]) ->
                Verdict("blocked", "daily_loss_percent", TRUE)
          [] pct # None /\ st.daily_pnl * 1000 <= -(balance * pct[1] * 8) ->
                Verdict("warning", "daily_loss_percent", FALSE)
          [] amount # None /\ st.daily_pnl <= -(amount[1]) ->
                Verdict("blocked", "daily_loss_amount", TRUE)
          [] dd # None /\ hwm > 0 /\ drop * 100 >= dd[1] * hwm ->
                Verdict("blocked", "drawdown", TRUE)
          [] dd # None /\ hwm > 0 /\ drop * 1000 >= dd[1] * 8 * hwm ->
                Verdict("warning", "drawdown", FALSE)
          [] /\ config.min_equity # None
             /\ st.current_equity > 0
             /\ st.current_equity < config.min_equity[1] ->
                Verdict("blocked", "min_equity", TRUE)
          [] /\ config.max_trades_per_day # None
             /\ st.trades_today >= config.max_trades_per_day[1] ->
                Verdict("blocked", "max_trades", FALSE)
          [] /\ config.prop_firm_safe_mode
             /\ st.consecutive_losses >= max_consecutive ->
                Verdict("warning", "consecutive_losses", FALSE)
          [] OTHER -> Verdict("allowed", "none", FALSE)

\* C22: check_trade_safety returns the verdict of the first rule that matches,
\* in the order paused, daily loss percent (Blocked, Warning at 80 %), daily
\* loss amount, drawdown (Blocked when high_water_mark > 0 and the drawdown
\* reaches the limit, Warning at 80 %), minimum equity, trades per day,
\* consecutive losses, else Allowed, and it pauses the receiver exactly on the
\* Blocked verdicts of the daily-loss, drawdown and minimum-equity rules.
C22_FirstMatchingRule ==
    [][\A r \in LedgerReceivers, config \in AllSafetyConfigs, b \in Balances :
          CheckTradeSafety(r, config, b) =>
            LET stated == StatedRules(StateChecked(r), config, b)
            IN  /\ s_last'.verdict = stated.verdict
                /\ stated.pause =>
                     (r \in DOMAIN ledger' /\ ledger'[r].is_safety_paused)
                /\ (~stated.pause /\ r \in DOMAIN ledger') =>
                     (ledger'[r].is_safety_paused
                        = StateChecked(r).is_safety_paused)]_vars

\* one of the ledger's operations is called for receiver r
LedgerOperation(r) ==
    \/ \E config \in SafetyConfigs, b \in Balances : CheckTradeSafety(r, config, b)
    \/ \E t \in TradeResults : RecordTradeResult(r, t[1], t[2])
    \/ \E e \in Equities : UpdateEquity(r, e)
    \/ \E b \in Balances \ {0}, e \in Equities : InitializeReceiver(r, b, e)

\* the ledger holds a last_reset_date for r that is not the current trading day
RolloverDue(r) ==
    /\ r \in DOMAIN ledger
    /\ ledger[r].last_reset_date # None
    /\ ledger[r].last_reset_date # Some(Today)

\* C23: every operation of the ledger on a receiver whose last_reset_date is
\* not the current trading day rolls the receiver over first: after it
\* last_reset_date is the current trading day and the daily fields count the
\* results of the current trading day only, which are none, or the one that
\* the operation has recorded.
C23_OperationsRollOver ==
    [][\A r \in LedgerReceivers :
          (LedgerOperation(r) /\ RolloverDue(r)) =>
             /\ ledger'[r].last_reset_date = Some(Today)
             /\ ledger'[r].trades_today = IF s_last'.op = "record" THEN 1 ELSE 0
             /\ ledger'[r].trades_today
                  = ledger'[r].wins_today + ledger'[r].losses_today]_vars

\* C24: one call of execute_trade makes a single attempt: it writes at most
\* one command file for its receiver, and after a timeout or a retryable
\* error response it returns the failure without writing the command again.
C24_OneCommandPerCall == \A r \in Receivers : fan_log.written[r] <= 1

\* C25: a file is seen under its final name only with its complete content:
\* a restart, also one that follows a crash in the middle of save_to_disk,
\* never reads a partially written execution_queue.json or
\* execution_history.json.
C25_NoPartialFileRead ==
    q_last.op = "load" =>
        /\ queue_file.state # "torn"
        /\ history_file.state # "torn"

\* the pairs of the join on master_position_id
JoinedPairs ==
    {<<m, r>> \in Range(sync_status.master_positions)
                 \X Range(sync_status.receiver_positions) :
        r.master_position_id = m.position_id}

\* the discrepancies the join calls for; a level the receiver's row lacks
\* counts as 0, the value a terminal gives a position without the level
JoinDiscrepancies ==
    {<<"missing_on_receiver", Some(m), None>> :
        m \in {x \in Range(sync_status.master_positions) :
                 \A p \in JoinedPairs : p[1] # x}}
    \cup {<<"orphaned_on_receiver", None, Some(r)>> :
        r \in {x \in Range(sync_status.receiver_positions) :
                 \A p \in JoinedPairs : p[2] # x}}
    \cup {<<"volume_mismatch", Some(p[1]), Some(p[2])>> :
        p \in {x \in JoinedPairs :
                 Abs(x[1].volume - x[2].volume) * 10 > x[1].volume}}
    \cup {<<"direction_mismatch", Some(p[1]), Some(p[2])>> :
        p \in {x \in JoinedPairs : x[1].direction # x[2].direction}}
    \cup {<<"sl_mismatch", Some(p[1]), Some(p[2])>> :
        p \in {x \in JoinedPairs :
                 Abs(x[1].sl - UnwrapOr(x[2].sl, 0)) > SL_TP_TOLERANCE}}
    \cup {<<"tp_mismatch", Some(p[1]), Some(p[2])>> :
        p \in {x \in JoinedPairs :
                 Abs(x[1].tp - UnwrapOr(x[2].tp, 0)) > SL_TP_TOLERANCE}}

\* C26: find_discrepancies reports exactly the discrepancies of the join on
\* master_position_id, each once: missing_on_receiver for a master position
\* without a row, orphaned_on_receiver for a row without a master position,
\* and for a joined pair volume_mismatch iff the volumes differ by more than
\* a tenth of the master's, direction_mismatch iff the directions differ,
\* sl_mismatch iff the stop losses differ by more than 0.0001 and tp_mismatch
\* iff the take profits do.
C26_ExactlyTheJoin ==
    /\ {<<d.discrepancy_type, d.master_position, d.receiver_position>> :
           d \in Range(sync_status.discrepancies)} = JoinDiscrepancies
    /\ Len(sync_status.discrepancies) = Cardinality(JoinDiscrepancies)

\* the positions of pending whose retry time has come
ReadyPositions == {i \in 1..Len(pending) : pending[i].next_retry_at <= now}

\* C27: dequeue returns the first entry of pending whose next_retry_at <= now,
\* with its attempts incremented, and moves it from pending to in_progress,
\* the other entries keeping their order; when no entry is ready it returns
\* none and leaves pending, in_progress and the history as they were.
C27_DequeueFirstReady ==
    [][/\ q_last'.op = "dequeue" =>
            \E i \in ReadyPositions :
                /\ \A j \in ReadyPositions : i <= j
                /\ q_last'.id = pending[i].id
                /\ pending' = SubSeq(pending, 1, i - 1)
                                \o SubSeq(pending, i + 1, Len(pending))
                /\ in_progress' = in_progress \cup
                      {[pending[i] EXCEPT !.attempts = pending[i].attempts + 1,
                                          !.status = "in_progress"]}
                /\ completed' = completed
       /\ q_last'.op = "dequeue_none" =>
            /\ ReadyPositions = {}
            /\ UNCHANGED <<pending, in_progress, completed, queue_file,
                           history_file>>]_vars

\* C27 happens: dequeue has passed over the first entry of pending, which
\* waits for its retry time after a failed attempt, and has returned the
\* entry behind it.
C27_Witness ==
    /\ q_last.op = "dequeue"
    /\ Len(pending) = 1
    /\ pending[1].next_retry_at > now
    /\ pending[1].attempts = 1
    /\ \E e \in in_progress : e.id = q_last.id /\ e.attempts = 1

\* C28: after any sequence of complete, fail and reload the history holds at
\* most MAX_COMPLETED_HISTORY results, and a result that is appended to a
\* full history evicts the oldest one: the others move up and the new result
\* is the last.
C28_HistoryBounded ==
    /\ [](Len(completed) <= MaxCompletedHistory)
    /\ [][(/\ q_last'.op \in {"complete", "fail"}
           /\ completed' # completed
           /\ Len(completed) = MaxCompletedHistory)
          => /\ Len(completed') = MaxCompletedHistory
             /\ SubSeq(completed', 1, MaxCompletedHistory - 1) = Tail(completed)
             /\ completed'[MaxCompletedHistory].id = q_last'.id]_vars

\* C28 happens: one execution more than the history has room for has come to
\* its end, by complete or by its last fail, and the history is full.
C28_Witness ==
    /\ next_id = MaxCompletedHistory + 2
    /\ pending = <<>>
    /\ in_progress = {}
    /\ q_crashes = 0
    /\ Len(completed) = MaxCompletedHistory
    /\ \E i \in 1..Len(completed) : ~completed[i].success

\* C29: whatever the risk mode and the inputs, calculate_lots returns a
\* multiple of 0.01 lot that is at least the minimum lot of 0.01 and at most
\* the maximum lot.
C29_LotsOnGridWithinLimits ==
    lot_call.risk_mode # "none" =>
        /\ lot_call.lots % 10 = 0
        /\ lot_call.lots >= MIN_LOT
        /\ lot_call.lots <= MAX_LOT

\* the number of places that hold the execution id: entries of pending,
\* entries of in_progress, results in the history
PlacesOf(id) ==
    Cardinality({i \in 1..Len(pending) : pending[i].id = id})
    + Cardinality({e \in in_progress : e.id = id})
    + Cardinality({i \in 1..Len(completed) : completed[i].id = id})

\* C35: in every state reached by enqueue, dequeue, complete and fail, each
\* id that enqueue has returned is in exactly one place - one entry of
\* pending, or one entry of in_progress, or one result in the history (which
\* has room for all of them here) - and ids not yet returned are nowhere; a
\* complete or fail with an id that is not in in_progress changes nothing.
C35_EachIdInOnePlace ==
    /\ [](\A id \in 1..(MaxExecs + 1) :
            PlacesOf(id) = IF id < next_id THEN 1 ELSE 0)
    /\ [][q_last'.op \in {"complete_unknown", "fail_unknown"}
            => UNCHANGED <<pending, in_progress, completed, queue_file,
                           history_file>>]_vars

\* C35 happens: of two executions one has been completed and the other has
\* failed once and waits in pending, and a complete for the finished one has
\* just been refused.
C35_Witness ==
    /\ q_last.op = "complete_unknown"
    /\ Len(completed) = 1
    /\ q_last.id = completed[1].id
    /\ Len(pending) = 1
    /\ pending[1].attempts = 1
    /\ in_progress = {}

\* the execution has left the queue and the history holds its result: a
\* success, or the failure of its last attempt
Finished(id) ==
    /\ id \notin Ids(Range(pending)) \cup Ids(in_progress)
    /\ \E i \in 1..Len(completed) :
          /\ completed[i].id = id
          /\ completed[i].success
              \/ completed[i].attempts = DEFAULT_MAX_ATTEMPTS

\* C36: with a worker that keeps calling dequeue and answers every execution
\* it gets with complete or fail, and with time advancing, every execution
\* that was enqueued eventually is neither pending nor in progress and has
\* its result in the history: a success, or a failure after max_attempts
\* attempts.  A finished execution stays finished, so the property is that
\* again and again every execution enqueued so far has finished.
C36_EveryExecutionFinishes ==
    []<>(\A id \in 1..MaxWorked : id < next_id => Finished(id))

\* C36 happens: an execution has been failed at every attempt, waiting for
\* its retry time twice, and has ended as a failure in the history; another
\* one has ended as a success.
C36_Witness ==
    /\ next_id = MaxWorked + 1
    /\ \A id \in 1..MaxWorked : Finished(id)
    /\ now >= BackoffSecs(1) + BackoffSecs(2)
    /\ \E i \in 1..Len(completed) :
          /\ ~completed[i].success
          /\ q_fails[completed[i].id] = DEFAULT_MAX_ATTEMPTS
    /\ \E i \in 1..Len(completed) : completed[i].success

\* a hard limit of the configuration is breached in the receiver's state:
\* the daily loss has reached max_daily_loss_amount, or the drawdown from the
\* high-water mark has reached max_drawdown_percent, or the equity is known
\* and below min_equity
HardLimitBreached(st, config) ==
    \/ /\ config.max_daily_loss_amount # None
       /\ st.daily_pnl <= -(config.max_daily_loss_amount[1])
    \/ /\ config.max_drawdown_percent # None
       /\ st.high_water_mark > 0
       /\ (st.high_water_mark - st.current_equity) * 100
             >= config.max_drawdown_percent[1] * st.high_water_mark
    \/ /\ config.min_equity # None
       /\ st.current_equity > 0
       /\ st.current_equity < config.min_equity[1]

\* C37: check_trade_safety answers Blocked, never Allowed or Warning, whenever
\* the state it checks (after the daily reset) breaches a hard limit of the
\* configuration: daily_pnl <= -max_daily_loss_amount, drawdown percent >=
\* max_drawdown_percent, or 0 < current_equity < min_equity.
C37_BreachedLimitBlocks ==
    [][\A r \in LedgerReceivers, config \in AllSafetyConfigs, b \in Balances :
          (CheckTradeSafety(r, config, b)
             /\ HardLimitBreached(StateChecked(r), config))
          => s_last'.verdict = "blocked"]_vars

\* C40: two events that differ in event_type, ticket, deal_id (an absent
\* deal_id differs from every present one), symbol or timestamp get different
\* idempotency keys from process_event_file, so the later one is not taken
\* for a duplicate of the earlier one.
C40_DistinctEventsDistinctKeys ==
    (/\ key_call.earlier # None
     /\ key_call.event # key_call.earlier)
    => key_call.key # key_call.earlier_key

\* C34: whenever process_event_file is given a file, by a creation event or
\* by the sweep of the files found at the start, the file has passed the
\* size-stability check and is not still being written, so that no file is
\* parsed, and removed as malformed, before the master has finished it.
C34_OnlyStableFilesParsed ==
    intake.last.op = "process_event_file" =>
        /\ intake.last.checked
        /\ ~intake.last.writing

\* C38: a sync command that has been written to a receiver's CopierCommands
\* folder is never replaced by another command: every command gets a file
\* name of its own, also when two commands are emitted within one
\* millisecond.  (The receiver reads no file in these runs.)
C38_NoCommandOverwritten ==
    [][\A r \in ReconReceivers : \A f \in DOMAIN command_files[r] :
          /\ f \in DOMAIN command_files'[r]
          /\ command_files'[r][f] = command_files[r][f]]_vars

\* the open commands for master position id among the sync command files of
\* receiver r (no file is read or removed in these runs)
OpenCommandsFor(r, id) ==
    {f \in DOMAIN command_files[r] :
        /\ command_files[r][f].command_type = "open"
        /\ command_files[r][f].master_position_id = Some(id)}

\* C33: with auto_open_missing enabled, a receiver is sent at most one open
\* command for one master position, however many reconciliation cycles run
\* while the receiver's position mapping does not show the position.
C33_OneOpenPerPosition ==
    \A r \in ReconReceivers : Cardinality(OpenCommandsFor(r, Master1.position_id)) <= 1

\* C32: within one call of execute_trade_async every response that an attempt
\* accepts is the reply to the command file that this attempt wrote, never
\* the late reply to an earlier attempt that timed out, and the receiver
\* executes the event of the call at most once.
C32_ResponseOfOwnAttempt ==
    /\ \A i \in DOMAIN rpc.accepted :
          rpc.accepted[i].reply_to = rpc.accepted[i].attempt
    /\ rpc.executions <= 1

\* C31: a thread that is doing file I/O, sleeping or polling for the response
\* of a receiver holds none of the mutexes of the runtime state, the safety
\* ledger and the idempotency store.
C31_NoLockAcrossIo ==
    \A t \in Threads :
        AtStep(t, {"io", "sleep", "rpc"}) =>
            HeldBy(t) \cap {"copier", "safety", "keys"} = {}

\* a set of threads each of which waits for a mutex held inside the set
WaitCycle(D) == \A t \in D : Blocked(t) /\ mutex_owner[NextStep(t).m] \in D

\* C39: under every interleaving of the file-watch thread, the
\* reconciliation thread, the command handlers and quit there is no set of
\* threads that wait for each other's mutexes, and every thread that waits
\* for a mutex gets it or the process exits.
C39_NoDeadlock ==
    /\ [](\A D \in (SUBSET Threads) \ {{}} : ~WaitCycle(D))
    /\ \A t \in Threads : []<>(~Blocked(t))

\* quit holds the runtime state and waits for the ledger, which the
\* file-watch thread holds while it persists
C39_Witness ==
    /\ Blocked("quit")
    /\ "copier" \in HeldBy("quit")
    /\ mutex_owner["safety"] = "watch"
    /\ Blocked("handler")

====
